---- MODULE Spec2Model ----
(***************************************************************************)
(* Model of the convoy daemon's snapshot and backup request handlers       *)
(* (daemon/snapshot.go, daemon/backup.go), the three identity indices they *)
(* maintain and the global reader/writer lock that guards them.            *)
(*                                                                         *)
(* Every handler is a sequence of atomic steps; a request slot r carries   *)
(* the handler's position in pc[r], its decoded request in req[r] and its  *)
(* local variables in local[r].  A handler that has computed its return    *)
(* value sits at pc[r] = "ret" with the value in result[r]; the deferred   *)
(* Unlock/RUnlock runs in Return(r).                                       *)
(***************************************************************************)
EXTENDS Integers, FiniteSets, Sequences, TLC

(***************************************************************************)
(* Bounds                                                                  *)
(***************************************************************************)
\* how many snapshot UUIDs uuid.New() can hand out in one daemon lifetime
MaxSnapshots == 2

\* how many requests the daemon serves in one run
MaxRequests == 3

\* request slots (goroutines serving one request at a time)
Requests == {"r1", "r2"}

\* the pool uuid.New() draws from, in the order it hands them out
UUIDPool == <<"s1", "s2", "s3", "s4">>

SnapUUIDs == {UUIDPool[i] : i \in 1..MaxSnapshots}

\* volumes that exist for the whole run, and the driver each one lives on
Volumes == {"v1", "v2", "v3"}

\* a well-formed volume UUID no volume has
AbsentVolume == "v9"

\* a string util.CheckUUID rejects
BadUUID == "not-a-uuid"

\* a string util.CheckName rejects
BadName == "bad/name"

Names == {"n1"}

\* the Go zero value of a string
Empty == ""

None == "none"

(***************************************************************************)
(* Drivers and their capabilities                                          *)
(***************************************************************************)
\* the driver a volume was created on (Volume.DriverName)
DriverOf(v) == CASE v = "v1" -> "vfs"
                 [] v = "v2" -> "devicemapper"
                 [] OTHER    -> "ceph"

\* Driver.SnapshotOps(): vfs returns itself, ceph returns "not supported"
SnapshotOps(d) == d \in {"vfs", "devicemapper"}

\* Driver.BackupOps(): vfs returns itself, ceph returns "not supported"
BackupOps(d) == d \in {"vfs", "devicemapper"}

\* whether the driver's GetSnapshotInfo map has an OPT_SNAPSHOT_NAME entry:
\* the vfs driver's map holds only UUID, VolumeUUID and FilePath
ReportsSnapshotName(d) == d = "devicemapper"

(***************************************************************************)
(* util.Index: a map from string to string behind the Add/Get/Delete       *)
(* contract, and the UUID existence index (a set of ids).                  *)
(***************************************************************************)
EmptyIndex == [k \in {} |-> ""]

\* IndexAdd with the conflict check left out: the new value replaces the old
IndexAdd_Overwrite(idx, key, value) ==
    IF key = Empty THEN [idx |-> idx, err |-> "BUG: Invalid empty index key"]
    ELSE IF value = Empty THEN [idx |-> idx, err |-> "BUG: Invalid empty index value"]
    ELSE [idx |-> [k \in DOMAIN idx \cup {key} |-> IF k = key THEN value ELSE idx[k]],
          err |-> Empty]

\* IndexAdd refusing every Add to a bound key, the same value included
IndexAdd_NoReAdd(idx, key, value) ==
    IF key = Empty THEN [idx |-> idx, err |-> "BUG: Invalid empty index key"]
    ELSE IF value = Empty THEN [idx |-> idx, err |-> "BUG: Invalid empty index value"]
    ELSE IF key \in DOMAIN idx
         THEN [idx |-> idx, err |-> "BUG: Conflict when updating index"]
    ELSE [idx |-> [k \in DOMAIN idx \cup {key} |-> IF k = key THEN value ELSE idx[k]],
          err |-> Empty]

\* IndexAdd without the check of the value
IndexAdd_EmptyValue(idx, key, value) ==
    IF key = Empty THEN [idx |-> idx, err |-> "BUG: Invalid empty index key"]
    ELSE IF key \in DOMAIN idx /\ idx[key] # value
         THEN [idx |-> idx, err |-> "BUG: Conflict when updating index"]
    ELSE [idx |-> [k \in DOMAIN idx \cup {key} |-> IF k = key THEN value ELSE idx[k]],
          err |-> Empty]

IndexAdd(idx, key, value) ==
    IF key = Empty THEN [idx |-> idx, err |-> "BUG: Invalid empty index key"]
    ELSE IF value = Empty THEN [idx |-> idx, err |-> "BUG: Invalid empty index value"]
    ELSE IF key \in DOMAIN idx /\ idx[key] # value
         THEN [idx |-> idx, err |-> "BUG: Conflict when updating index"]
    ELSE [idx |-> [k \in DOMAIN idx \cup {key} |-> IF k = key THEN value ELSE idx[k]],
          err |-> Empty]

\* IndexGet answering for a bound key with the key itself
IndexGet_Key(idx, key) == IF key \in DOMAIN idx THEN key ELSE Empty

IndexGet(idx, key) == IF key \in DOMAIN idx THEN idx[key] ELSE Empty

\* IndexDelete accepting a key that is not bound
IndexDelete_Lenient(idx, key) ==
    IF key = Empty THEN [idx |-> idx, err |-> "BUG: Invalid empty index key"]
    ELSE [idx |-> [k \in DOMAIN idx \ {key} |-> idx[k]], err |-> Empty]

\* IndexDelete reporting success and keeping the binding
IndexDelete_KeepBinding(idx, key) ==
    IF key = Empty THEN [idx |-> idx, err |-> "BUG: Invalid empty index key"]
    ELSE IF key \notin DOMAIN idx
         THEN [idx |-> idx, err |-> "BUG: About to remove non-existed key"]
    ELSE [idx |-> idx, err |-> Empty]

IndexDelete(idx, key) ==
    IF key = Empty THEN [idx |-> idx, err |-> "BUG: Invalid empty index key"]
    ELSE IF key \notin DOMAIN idx
         THEN [idx |-> idx, err |-> "BUG: About to remove non-existed key"]
    ELSE [idx |-> [k \in DOMAIN idx \ {key} |-> idx[k]], err |-> Empty]

UUIDAdd(set, id) ==
    IF id = Empty \/ id \in set THEN [set |-> set, err |-> "BUG: UUID already exists"]
    ELSE [set |-> set \cup {id}, err |-> Empty]

UUIDDelete(set, id) ==
    IF id \notin set THEN [set |-> set, err |-> "BUG: no such UUID"]
    ELSE [set |-> set \ {id}, err |-> Empty]

\* util.CheckUUID and util.CheckName
CheckUUID(u) == u # BadUUID /\ u # Empty

CheckName(n) == n # BadName

(***************************************************************************)
(* State                                                                   *)
(***************************************************************************)
VARIABLES
    volumes,              \* daemon memory: volume UUID -> Snapshots map
    durable,              \* the volume records saveVolume has written
    UUIDIndex,            \* s.UUIDIndex
    SnapshotVolumeIndex,  \* s.SnapshotVolumeIndex
    NameUUIDIndex,        \* s.NameUUIDIndex
    driverSnapshots,      \* the drivers' own snapshot records
    backups,              \* backup objects at the destination
    minted,               \* how many UUIDs uuid.New() has handed out
    served,               \* how many requests have entered a handler
    GlobalLock,           \* s.GlobalLock (sync.RWMutex)
    pc, req, local, result,
    index, lastOp,        \* a stand-alone util.Index and the last call on it
    vfs,                  \* the vfs driver's volumes and the last call on the driver
    ConvoyDrivers,        \* s.ConvoyDrivers: the names of the drivers the daemon loaded
    reply,                \* what doBackupCreate wrote to its http.ResponseWriter
    drv,                  \* a driver's mutex, its volume map and the calls running on it
    flock,                \* the lock files util.LockFile holds and the last call on them
    parsed,               \* the last util.ParseSize call
    vfsMutex,             \* the vfs driver's d.mutex, the calls running on the driver and its volumes
    nfsd,                 \* the nfs driver's d.volumes, the mounts made and the last call
    cephd,                \* the ceph MountVolume call in progress and the image it works on
    retryer               \* the last ConvoyAWSRetryer.RetryRules call

daemonVars == <<volumes, durable, UUIDIndex, SnapshotVolumeIndex, NameUUIDIndex,
                driverSnapshots, backups, minted, served, GlobalLock, pc, req, local,
                result>>

indexVars == <<index, lastOp>>

vfsVars == <<vfs>>

laterVars == <<vfsMutex, nfsd, cephd, retryer>>

otherVars == <<ConvoyDrivers, reply, drv, flock, parsed, vfsMutex, nfsd, cephd, retryer>>

vars == <<volumes, durable, UUIDIndex, SnapshotVolumeIndex, NameUUIDIndex,
          driverSnapshots, backups, minted, served, GlobalLock, pc, req, local,
          result, index, lastOp, vfs, ConvoyDrivers, reply, drv, flock, parsed,
          vfsMutex, nfsd, cephd, retryer>>

\* a backup URL has a scheme and names the volume and the snapshot the
\* backup was taken from; the destination backups are sent to is an object
\* store of scheme vfs
NoURL == [scheme |-> Empty, volume |-> Empty, snapshot |-> Empty]

BackupURLs == {[scheme |-> "vfs", volume |-> v, snapshot |-> s] :
                  v \in {"v1", "v2"}, s \in SnapUUIDs}

NoRequest == [op |-> None, volume |-> Empty, name |-> Empty, snapshot |-> Empty,
              url |-> NoURL]

\* the handler's locals, what the request saw when it started and the index
\* and driver calls the handler has made so far
NoMetadata == [volumes |-> [v \in Volumes |-> EmptyIndex], UUIDIndex |-> {},
               SnapshotVolumeIndex |-> EmptyIndex, NameUUIDIndex |-> EmptyIndex]

NoLocal == [uuid |-> Empty, volumeUUID |-> Empty, snapshotName |-> Empty,
            pre |-> NoMetadata, preDriver |-> EmptyIndex,
            duringUpload |-> FALSE, backupURL |-> NoURL, calls |-> {},
            listing |-> {}]

NoLastOp == [op |-> None, key |-> Empty, value |-> Empty, out |-> Empty,
             before |-> EmptyIndex, earlier |-> <<>>]

\* the vfs driver's state: the ids of the volume config records it has
\* saved, the volume directories under its base path, the directories a
\* backup's blob was downloaded into, and the Path and MountPoint fields of
\* each saved record
NoVolumes == [configs |-> {}, dirs |-> {}, blobs |-> {}, volume |-> EmptyIndex]

NoCall == [op |-> None, id |-> Empty, url |-> NoURL, out |-> Empty,
           before |-> NoVolumes, stored |-> {}]

NoVfs == [configs |-> {}, dirs |-> {}, blobs |-> {}, volume |-> EmptyIndex,
          last |-> NoCall]

\* the drivers the daemon loads when every driver is configured
LoadedDrivers == {"vfs", "devicemapper", "ceph"}

NoReply == [url |-> <<>>, verbose |-> FALSE, body |-> <<>>]

\* the goroutines that call into a driver, the drivers with a volume map
\* and a mutex of their own, and a caller that is in no driver call
Callers == {1, 2}

VolumeDrivers == {"vfs", "nfs", "ceph"}

Idle == [driver |-> Empty, op |-> Empty, pc |-> "idle", volume |-> "nil"]

\* the drivers before any call: each driver's mutex is free (0) and the
\* volume is in no driver's volume map or config directory
NoDrv == [mutex |-> [d \in VolumeDrivers |-> 0],
          volumes |-> [d \in VolumeDrivers |-> [exists |-> FALSE, mounted |-> FALSE]],
          proc |-> [c \in Callers |-> Idle],
          out |-> [c \in Callers |-> Empty],
          fatal |-> FALSE]

\* the files util.LockFile is called on and the number of refused attempts
\* on a held lock that are followed
LockPaths == {"/tmp/t.lock", "/tmp/u.lock", "/tmp/v.lock"}

MaxRetries == 3

NoLockCall == [op |-> None, path |-> Empty, handle |-> Empty, err |-> Empty,
               held |-> FALSE]

\* no file is locked: held are the files with a lock, each one's handle being
\* the open file; refused counts the attempts refused since a lock was taken
NoFlock == [held |-> {}, refused |-> [p \in LockPaths |-> 0], last |-> NoLockCall]

NoParsed == [size |-> <<>>, value |-> 0, err |-> Empty]

\* the volumes and the snapshots the calls on the vfs driver name
LockedVolumes == {"v1", "v2"}

LockedSnapshots == {"s1"}

\* how many calls the callers make on the vfs driver
MaxCalls == 2

\* a vfs volume's record on disk: whether the config file is there, whether
\* MountPoint is set, and the keys of its Snapshots map
Absent == [exists |-> FALSE, mounted |-> FALSE, Snapshots |-> {}]

Fresh == [exists |-> TRUE, mounted |-> FALSE, Snapshots |-> {}]

\* the last call that returned to the code that called the driver
NoDone == [caller |-> 0, op |-> Empty, out |-> {}, err |-> Empty]

\* the vfs driver before any call: d.mutex is free (no writer holds or waits
\* for it, no reader holds it), no call is running, no volume is on disk
NoLocking == [writer |-> 0,
              readers |-> [c \in Callers |-> 0],
              stack |-> [c \in Callers |-> << >>],
              left |-> MaxCalls,
              disk |-> [v \in LockedVolumes |-> Absent],
              done |-> NoDone]

\* the volume names the calls on the nfs driver use
NfsNames == {"vol1", "vol2"}

\* how many directories ioutil.TempDir makes
MaxTempDirs == 3

NoNfsCall == [op |-> Empty, name |-> Empty, out |-> 0, err |-> Empty]

\* the nfs driver before any call: d.volumes is empty (a name that is not in
\* the map has MountPoint 0), nothing is mounted and no directory was made;
\* directory i stands for the i-th path ioutil.TempDir returns, 0 for ""
NoNfs == [volumes |-> [n \in NfsNames |-> 0], mounts |-> {}, dirs |-> 0,
          last |-> NoNfsCall]

\* what is on an RBD image: nothing, a file system, or a LUKS container
\* with nothing or a file system in it
CephDisks == {"unformatted", "ext4", "luks unformatted", "luks ext4"}

NoCephReturn == [mountPoint |-> Empty, err |-> "nil"]

\* the ceph volume before any MountVolume: the image is not mapped (Device
\* is ""), not mounted and no call is running; err is MountVolume's variable
\* err; unmaps counts the runs of unmapCephVolume in the call, failed names
\* the statement the call returned an error from, detected is what the
\* call's fs.Detect returned as its error
NoCeph == [pc |-> "idle", disk |-> "unformatted", err |-> "nil", fsType |-> Empty,
           Device |-> Empty, LUKSDevice |-> Empty, mountDevice |-> Empty,
           mounted |-> FALSE, unmaps |-> 0, failed |-> Empty, detected |-> Empty,
           ret |-> NoCephReturn]

\* no RetryRules call: the request has no response status and no
\* Retry-After header, and no delay was returned
NoRetry == [StatusCode |-> 0, RetryAfter |-> <<>>, RetryCount |-> 0, IsErrorThrottle |-> FALSE,
            returned |-> FALSE, suggested |-> FALSE, uncapped |-> 0, delay |-> 0]

\* the state of the components at daemon start
OtherInit ==
    /\ ConvoyDrivers = LoadedDrivers
    /\ reply = NoReply
    /\ drv = NoDrv
    /\ flock = NoFlock
    /\ vfsMutex = NoLocking
    /\ nfsd = NoNfs
    /\ cephd = NoCeph
    /\ retryer = NoRetry
    /\ parsed = NoParsed

\* the in-memory metadata a request can leave changed
Metadata == [volumes |-> volumes, UUIDIndex |-> UUIDIndex,
             SnapshotVolumeIndex |-> SnapshotVolumeIndex,
             NameUUIDIndex |-> NameUUIDIndex]

Init ==
    /\ volumes = [v \in Volumes |-> EmptyIndex]
    /\ durable = [v \in Volumes |-> EmptyIndex]
    /\ UUIDIndex = Volumes
    /\ SnapshotVolumeIndex = EmptyIndex
    /\ NameUUIDIndex = EmptyIndex
    /\ driverSnapshots = EmptyIndex
    /\ backups = {}
    /\ minted = 0
    /\ served = 0
    /\ GlobalLock = [writer |-> None, readers |-> {}]
    /\ pc = [r \in Requests |-> "idle"]
    /\ req = [r \in Requests |-> NoRequest]
    /\ local = [r \in Requests |-> NoLocal]
    /\ result = [r \in Requests |-> Empty]
    /\ index = EmptyIndex
    /\ lastOp = NoLastOp
    /\ vfs = NoVfs
    /\ OtherInit

(***************************************************************************)
(* sync.RWMutex                                                            *)
(***************************************************************************)
CanLock == GlobalLock.writer = None /\ GlobalLock.readers = {}

CanRLock == GlobalLock.writer = None

Lock(r) == [GlobalLock EXCEPT !.writer = r]

RLock(r) == [GlobalLock EXCEPT !.readers = @ \cup {r}]

\* the deferred Unlock / RUnlock of whatever r holds
Unlock(r) == [writer |-> IF GlobalLock.writer = r THEN None ELSE GlobalLock.writer,
              readers |-> GlobalLock.readers \ {r}]

(***************************************************************************)
(* Daemon helpers                                                          *)
(***************************************************************************)
\* s.loadVolume: the volume, or nil
loadVolume(v) == IF v \in Volumes THEN v ELSE None

\* snapshotExists that looks at the volume only
snapshotExists_VolumeOnly(volumeUUID, snapshotUUID) == loadVolume(volumeUUID) # None

snapshotExists(volumeUUID, snapshotUUID) ==
    /\ loadVolume(volumeUUID) # None
    /\ snapshotUUID \in DOMAIN volumes[volumeUUID]

\* GetSnapshotInfo of the volume's driver: the info map, or an error
HasDriverSnapshot(snapshotUUID, v) ==
    /\ snapshotUUID \in DOMAIN driverSnapshots
    /\ driverSnapshots[snapshotUUID].volume = v

\* driverInfo[OPT_SNAPSHOT_NAME] of a snapshot the driver holds
DriverSnapshotName(snapshotUUID, v) ==
    IF ReportsSnapshotName(DriverOf(v)) THEN driverSnapshots[snapshotUUID].name
    ELSE Empty

\* m[k] = v and delete(m, k) on a Go map
Put(m, k, v) == [x \in DOMAIN m \cup {k} |-> IF x = k THEN v ELSE m[x]]

Remove(m, k) == [x \in DOMAIN m \ {k} |-> m[x]]

\* one step of handler r: move to label l
Goto(r, l) == pc' = [pc EXCEPT ![r] = l]

\* handler r computes its return value e and is about to run its defers
Finish(r, e) == /\ pc' = [pc EXCEPT ![r] = "ret"]
              /\ result' = [result EXCEPT ![r] = e]


\* a handler has updated the snapshot map or an index and has not yet saved
\* the volume record
Unsaved(q) == pc[q] \in {"sc_uuid", "sc_owner", "sc_name", "sc_save",
                         "sd_owner", "sd_name", "sd_map", "sd_save"}

SomeUnsaved == \E q \in Requests : Unsaved(q)

\* a handler is between its first and its last update of the snapshot map
\* and the indices
MidUpdate(q) ==
    \/ pc[q] \in {"sc_uuid", "sc_owner"}
    \/ pc[q] = "sc_name" /\ req[q].name # Empty
    \/ pc[q] \in {"sd_owner", "sd_name", "sd_map"}

SomeMidUpdate == \E q \in Requests : MidUpdate(q)

Uploading == \E q \in Requests : pc[q] = "bc_upload"

(***************************************************************************)
(* doSnapshotCreate (daemon/snapshot.go)                                   *)
(***************************************************************************)
\* ScEnter without the lookup of the name in the name index
ScEnter_NoNameLookup(r, v, n) ==
    /\ pc[r] = "idle"
    /\ served < MaxRequests
    /\ served' = served + 1
    /\ minted < MaxSnapshots
    /\ CanLock
    /\ GlobalLock' = Lock(r)
    /\ req' = [req EXCEPT ![r] = [NoRequest EXCEPT !.op = "SnapshotCreate",
                                                    !.volume = v, !.name = n]]
    /\ local' = [local EXCEPT ![r] = [NoLocal EXCEPT !.pre = Metadata,
                                                     !.preDriver = driverSnapshots,
                                                     !.duringUpload = Uploading]]
    /\ IF ~CheckUUID(v) THEN Finish(r, "invalid UUID")
       ELSE IF n # Empty /\ ~CheckName(n) THEN Finish(r, "invalid name")
       ELSE IF loadVolume(v) = None THEN Finish(r, "volume doesn't exist")
       ELSE IF ~SnapshotOps(DriverOf(v)) THEN Finish(r, "not supported")
       ELSE Goto(r, "sc_driver") /\ UNCHANGED result
    /\ UNCHANGED <<volumes, durable, UUIDIndex, SnapshotVolumeIndex, NameUUIDIndex,
                   driverSnapshots, backups, minted, index, lastOp, vfs, otherVars>>

\* ScEnter binding the name in the name index before it asks the volume's
\* driver for its snapshot operations
ScEnter_BindsNameFirst(r, v, n) ==
    /\ pc[r] = "idle"
    /\ served < MaxRequests
    /\ served' = served + 1
    /\ minted < MaxSnapshots
    /\ CanLock
    /\ GlobalLock' = Lock(r)
    /\ req' = [req EXCEPT ![r] = [NoRequest EXCEPT !.op = "SnapshotCreate",
                                                    !.volume = v, !.name = n]]
    /\ local' = [local EXCEPT ![r] =
                    [NoLocal EXCEPT !.pre = Metadata,
                                    !.preDriver = driverSnapshots,
                                    !.duringUpload = Uploading,
                                    !.calls = IF CheckUUID(v) /\ n # Empty /\ CheckName(n)
                                              THEN {"NameUUIDIndex.Get"} ELSE {}]]
    /\ IF ~CheckUUID(v) THEN Finish(r, "invalid UUID") /\ UNCHANGED NameUUIDIndex
       ELSE IF n # Empty /\ ~CheckName(n)
       THEN Finish(r, "invalid name") /\ UNCHANGED NameUUIDIndex
       ELSE IF n # Empty /\ IndexGet(NameUUIDIndex, n) # Empty
       THEN Finish(r, "name already associated") /\ UNCHANGED NameUUIDIndex
       ELSE IF loadVolume(v) = None
       THEN Finish(r, "volume doesn't exist") /\ UNCHANGED NameUUIDIndex
       ELSE /\ NameUUIDIndex' = IF n # Empty THEN IndexAdd(NameUUIDIndex, n, v).idx
                                ELSE NameUUIDIndex
            /\ IF ~SnapshotOps(DriverOf(v)) THEN Finish(r, "not supported")
               ELSE Goto(r, "sc_driver") /\ UNCHANGED result
    /\ UNCHANGED <<volumes, durable, UUIDIndex, SnapshotVolumeIndex,
                   driverSnapshots, backups, minted, index, lastOp, vfs, otherVars>>

\* ScEnter looking the name up before it checks the UUID and the name
ScEnter_LookupFirst(r, v, n) ==
    /\ pc[r] = "idle"
    /\ served < MaxRequests
    /\ served' = served + 1
    /\ minted < MaxSnapshots
    /\ CanLock
    /\ GlobalLock' = Lock(r)
    /\ req' = [req EXCEPT ![r] = [NoRequest EXCEPT !.op = "SnapshotCreate",
                                                    !.volume = v, !.name = n]]
    /\ local' = [local EXCEPT ![r] =
                    [NoLocal EXCEPT !.pre = Metadata,
                                    !.preDriver = driverSnapshots,
                                    !.duringUpload = Uploading,
                                    !.calls = IF n # Empty
                                              THEN {"NameUUIDIndex.Get"} ELSE {}]]
    /\ IF n # Empty /\ IndexGet(NameUUIDIndex, n) # Empty
       THEN Finish(r, "name already associated")
       ELSE IF ~CheckUUID(v) THEN Finish(r, "invalid UUID")
       ELSE IF n # Empty /\ ~CheckName(n) THEN Finish(r, "invalid name")
       ELSE IF loadVolume(v) = None THEN Finish(r, "volume doesn't exist")
       ELSE IF ~SnapshotOps(DriverOf(v)) THEN Finish(r, "not supported")
       ELSE Goto(r, "sc_driver") /\ UNCHANGED result
    /\ UNCHANGED <<volumes, durable, UUIDIndex, SnapshotVolumeIndex, NameUUIDIndex,
                   driverSnapshots, backups, minted, index, lastOp, vfs, otherVars>>

\* ScEnter looking the name up in the Snapshot-Volume index
ScEnter_WrongIndex(r, v, n) ==
    /\ pc[r] = "idle"
    /\ served < MaxRequests
    /\ served' = served + 1
    /\ minted < MaxSnapshots
    /\ CanLock
    /\ GlobalLock' = Lock(r)
    /\ req' = [req EXCEPT ![r] = [NoRequest EXCEPT !.op = "SnapshotCreate",
                                                    !.volume = v, !.name = n]]
    /\ local' = [local EXCEPT ![r] =
                    [NoLocal EXCEPT !.pre = Metadata,
                                    !.preDriver = driverSnapshots,
                                    !.duringUpload = Uploading,
                                    !.calls = IF CheckUUID(v) /\ n # Empty /\ CheckName(n)
                                              THEN {"SnapshotVolumeIndex.Get"} ELSE {}]]
    /\ IF ~CheckUUID(v) THEN Finish(r, "invalid UUID")
       ELSE IF n # Empty /\ ~CheckName(n) THEN Finish(r, "invalid name")
       ELSE IF n # Empty /\ IndexGet(SnapshotVolumeIndex, n) # Empty
            THEN Finish(r, "name already associated")
       ELSE IF loadVolume(v) = None THEN Finish(r, "volume doesn't exist")
       ELSE IF ~SnapshotOps(DriverOf(v)) THEN Finish(r, "not supported")
       ELSE Goto(r, "sc_driver") /\ UNCHANGED result
    /\ UNCHANGED <<volumes, durable, UUIDIndex, SnapshotVolumeIndex, NameUUIDIndex,
                   driverSnapshots, backups, minted, index, lastOp, vfs, otherVars>>

\* s.GlobalLock.Lock(); decodeRequest; CheckUUID, CheckName, the name lookup,
\* loadVolume, getSnapshotOpsForVolume
ScEnter(r, v, n) ==
    /\ pc[r] = "idle"
    /\ served < MaxRequests
    /\ served' = served + 1
    /\ minted < MaxSnapshots
    /\ CanLock
    /\ GlobalLock' = Lock(r)
    /\ req' = [req EXCEPT ![r] = [NoRequest EXCEPT !.op = "SnapshotCreate",
                                                    !.volume = v, !.name = n]]
    /\ local' = [local EXCEPT ![r] =
                    [NoLocal EXCEPT !.pre = Metadata,
                                    !.preDriver = driverSnapshots,
                                    !.duringUpload = Uploading,
                                    !.calls = IF CheckUUID(v) /\ n # Empty /\ CheckName(n)
                                              THEN {"NameUUIDIndex.Get"} ELSE {}]]
    /\ IF ~CheckUUID(v) THEN Finish(r, "invalid UUID")
       ELSE IF n # Empty /\ ~CheckName(n) THEN Finish(r, "invalid name")
       ELSE IF n # Empty /\ IndexGet(NameUUIDIndex, n) # Empty
            THEN Finish(r, "name already associated")
       ELSE IF loadVolume(v) = None THEN Finish(r, "volume doesn't exist")
       ELSE IF ~SnapshotOps(DriverOf(v)) THEN Finish(r, "not supported")
       ELSE Goto(r, "sc_driver") /\ UNCHANGED result
    /\ UNCHANGED <<volumes, durable, UUIDIndex, SnapshotVolumeIndex, NameUUIDIndex,
                   driverSnapshots, backups, minted, index, lastOp, vfs, otherVars>>

\* NewUUID handing out the same UUID every time
NewUUID_Reuse == UUIDPool[1]

\* uuid.New(): a UUID it has not handed out before
NewUUID == UUIDPool[minted + 1]

\* uuid.New(); snapOps.CreateSnapshot(uuid, opts)
ScDriver(r) ==
    /\ pc[r] = "sc_driver"
    /\ minted' = minted + 1
    /\ \E ok \in BOOLEAN :
         IF ok
         THEN /\ driverSnapshots' = Put(driverSnapshots, NewUUID,
                                        [volume |-> req[r].volume, name |-> req[r].name])
              /\ local' = [local EXCEPT ![r].uuid = NewUUID,
                                         ![r].calls = @ \cup {"CreateSnapshot"}]
              /\ Goto(r, "sc_map")
              /\ UNCHANGED result
         ELSE /\ Finish(r, "driver error")
              /\ local' = [local EXCEPT ![r].calls = @ \cup {"CreateSnapshot"}]
              /\ UNCHANGED driverSnapshots
    /\ UNCHANGED <<volumes, durable, UUIDIndex, SnapshotVolumeIndex, NameUUIDIndex,
                   backups, GlobalLock, req, index, lastOp, vfs, otherVars, served>>

\* volume.Snapshots[uuid] = snapshot
ScMap(r) ==
    /\ pc[r] = "sc_map"
    /\ volumes' = [volumes EXCEPT ![req[r].volume] =
                     Put(@, local[r].uuid, [UUID |-> local[r].uuid,
                                            VolumeUUID |-> req[r].volume])]
    /\ Goto(r, "sc_uuid")
    /\ UNCHANGED <<durable, UUIDIndex, SnapshotVolumeIndex, NameUUIDIndex,
                   driverSnapshots, backups, minted, GlobalLock, req, local, result,
                   index, lastOp, vfs, otherVars, served>>

\* s.UUIDIndex.Add(snapshot.UUID)
ScUUID(r) ==
    /\ pc[r] = "sc_uuid"
    /\ LET out == UUIDAdd(UUIDIndex, local[r].uuid) IN
         /\ UUIDIndex' = out.set
         /\ IF out.err # Empty THEN Finish(r, out.err)
            ELSE Goto(r, "sc_owner") /\ UNCHANGED result
    /\ local' = [local EXCEPT ![r].calls = @ \cup {"UUIDIndex.Add"}]
    /\ UNCHANGED <<volumes, durable, SnapshotVolumeIndex, NameUUIDIndex,
                   driverSnapshots, backups, minted, GlobalLock, req,
                   index, lastOp, vfs, otherVars, served>>

\* ScOwner without s.SnapshotVolumeIndex.Add
ScOwner_Unbound(r) ==
    /\ pc[r] = "sc_owner"
    /\ Goto(r, "sc_name")
    /\ UNCHANGED <<volumes, durable, UUIDIndex, SnapshotVolumeIndex, NameUUIDIndex,
                   driverSnapshots, backups, minted, GlobalLock, req, local, result,
                   index, lastOp, vfs, otherVars, served>>

\* s.SnapshotVolumeIndex.Add(snapshot.UUID, volume.UUID)
ScOwner(r) ==
    /\ pc[r] = "sc_owner"
    /\ LET out == IndexAdd(SnapshotVolumeIndex, local[r].uuid, req[r].volume) IN
         /\ SnapshotVolumeIndex' = out.idx
         /\ IF out.err # Empty THEN Finish(r, out.err)
            ELSE Goto(r, "sc_name") /\ UNCHANGED result
    /\ local' = [local EXCEPT ![r].calls = @ \cup {"SnapshotVolumeIndex.Add"}]
    /\ UNCHANGED <<volumes, durable, UUIDIndex, NameUUIDIndex,
                   driverSnapshots, backups, minted, GlobalLock, req,
                   index, lastOp, vfs, otherVars, served>>

\* if snapshotName != "" { s.NameUUIDIndex.Add(snapshotName, snapshot.UUID) }
ScName(r) ==
    /\ pc[r] = "sc_name"
    /\ LET out == IF req[r].name # Empty
                  THEN IndexAdd(NameUUIDIndex, req[r].name, local[r].uuid)
                  ELSE [idx |-> NameUUIDIndex, err |-> Empty] IN
         /\ NameUUIDIndex' = out.idx
         /\ IF out.err # Empty THEN Finish(r, out.err)
            ELSE Goto(r, "sc_save") /\ UNCHANGED result
    /\ local' = [local EXCEPT ![r].calls =
                    IF req[r].name # Empty THEN @ \cup {"NameUUIDIndex.Add"} ELSE @]
    /\ UNCHANGED <<volumes, durable, UUIDIndex, SnapshotVolumeIndex,
                   driverSnapshots, backups, minted, GlobalLock, req,
                   index, lastOp, vfs, otherVars, served>>

\* ScSave taking the snapshot out of the snapshot map when saveVolume fails
ScSave_RollsBack(r) ==
    /\ pc[r] = "sc_save"
    /\ \E ok \in BOOLEAN :
         IF ok
         THEN /\ durable' = [durable EXCEPT ![req[r].volume] = volumes[req[r].volume]]
              /\ local' = [local EXCEPT ![r].calls = @ \cup {"GetSnapshotInfo"}]
              /\ IF HasDriverSnapshot(local[r].uuid, req[r].volume)
                 THEN Finish(r, "ok")
                 ELSE Finish(r, "snapshot doesn't exist in driver")
              /\ UNCHANGED volumes
         ELSE /\ Finish(r, "save error")
              /\ volumes' = [volumes EXCEPT ![req[r].volume] = Remove(@, local[r].uuid)]
              /\ UNCHANGED <<durable, local>>
    /\ UNCHANGED <<UUIDIndex, SnapshotVolumeIndex, NameUUIDIndex,
                   driverSnapshots, backups, minted, GlobalLock, req,
                   index, lastOp, vfs, otherVars, served>>

\* s.saveVolume(volume); getSnapshotDriverInfo and the response
ScSave(r) ==
    /\ pc[r] = "sc_save"
    /\ \E ok \in BOOLEAN :
         IF ok
         THEN /\ durable' = [durable EXCEPT ![req[r].volume] = volumes[req[r].volume]]
              /\ local' = [local EXCEPT ![r].calls = @ \cup {"GetSnapshotInfo"}]
              /\ IF HasDriverSnapshot(local[r].uuid, req[r].volume)
                 THEN Finish(r, "ok")
                 ELSE Finish(r, "snapshot doesn't exist in driver")
         ELSE /\ Finish(r, "save error")
              /\ UNCHANGED <<durable, local>>
    /\ UNCHANGED <<volumes, UUIDIndex, SnapshotVolumeIndex, NameUUIDIndex,
                   driverSnapshots, backups, minted, GlobalLock, req,
                   index, lastOp, vfs, otherVars, served>>

(***************************************************************************)
(* doSnapshotDelete (daemon/snapshot.go)                                   *)
(***************************************************************************)
\* SdEnter without s.GlobalLock.Lock()
SdEnter_NoLock(r, s) ==
    /\ pc[r] = "idle"
    /\ served < MaxRequests
    /\ served' = served + 1
    /\ req' = [req EXCEPT ![r] = [NoRequest EXCEPT !.op = "SnapshotDelete",
                                                    !.snapshot = s]]
    /\ LET volumeUUID == IndexGet(SnapshotVolumeIndex, s)
           entry == [NoLocal EXCEPT !.pre = Metadata,
                                    !.preDriver = driverSnapshots,
                                    !.duringUpload = Uploading]
           looked == [entry EXCEPT !.calls = {"SnapshotVolumeIndex.Get"}]
           asked == [entry EXCEPT !.calls = {"SnapshotVolumeIndex.Get", "GetSnapshotInfo"}]
       IN
       IF ~CheckUUID(s)
       THEN Finish(r, "invalid UUID") /\ local' = [local EXCEPT ![r] = entry]
       ELSE IF volumeUUID = Empty
       THEN Finish(r, "cannot find volume for snapshot")
            /\ local' = [local EXCEPT ![r] = looked]
       ELSE IF ~snapshotExists(volumeUUID, s)
       THEN Finish(r, "snapshot doesn't exist") /\ local' = [local EXCEPT ![r] = looked]
       ELSE IF ~SnapshotOps(DriverOf(volumeUUID))
       THEN Finish(r, "not supported") /\ local' = [local EXCEPT ![r] = looked]
       ELSE IF ~HasDriverSnapshot(s, volumeUUID)
       THEN Finish(r, "snapshot doesn't exist in driver")
            /\ local' = [local EXCEPT ![r] = asked]
       ELSE /\ local' = [local EXCEPT ![r] =
                           [asked EXCEPT !.volumeUUID = volumeUUID,
                                         !.snapshotName = DriverSnapshotName(s, volumeUUID)]]
            /\ Goto(r, "sd_driver")
            /\ UNCHANGED result
    /\ UNCHANGED <<volumes, durable, UUIDIndex, SnapshotVolumeIndex, NameUUIDIndex,
                   driverSnapshots, backups, minted, GlobalLock, index, lastOp, vfs, otherVars>>

\* s.GlobalLock.Lock(); decodeRequest; CheckUUID, the owner lookup,
\* snapshotExists, getSnapshotOpsForVolume, getSnapshotDriverInfo
SdEnter(r, s) ==
    /\ pc[r] = "idle"
    /\ served < MaxRequests
    /\ served' = served + 1
    /\ CanLock
    /\ GlobalLock' = Lock(r)
    /\ req' = [req EXCEPT ![r] = [NoRequest EXCEPT !.op = "SnapshotDelete",
                                                    !.snapshot = s]]
    /\ LET volumeUUID == IndexGet(SnapshotVolumeIndex, s)
           entry == [NoLocal EXCEPT !.pre = Metadata,
                                    !.preDriver = driverSnapshots,
                                    !.duringUpload = Uploading]
           looked == [entry EXCEPT !.calls = {"SnapshotVolumeIndex.Get"}]
           asked == [entry EXCEPT !.calls = {"SnapshotVolumeIndex.Get", "GetSnapshotInfo"}]
       IN
       IF ~CheckUUID(s)
       THEN Finish(r, "invalid UUID") /\ local' = [local EXCEPT ![r] = entry]
       ELSE IF volumeUUID = Empty
       THEN Finish(r, "cannot find volume for snapshot")
            /\ local' = [local EXCEPT ![r] = looked]
       ELSE IF ~snapshotExists(volumeUUID, s)
       THEN Finish(r, "snapshot doesn't exist") /\ local' = [local EXCEPT ![r] = looked]
       ELSE IF ~SnapshotOps(DriverOf(volumeUUID))
       THEN Finish(r, "not supported") /\ local' = [local EXCEPT ![r] = looked]
       ELSE IF ~HasDriverSnapshot(s, volumeUUID)
       THEN Finish(r, "snapshot doesn't exist in driver")
            /\ local' = [local EXCEPT ![r] = asked]
       ELSE /\ local' = [local EXCEPT ![r] =
                           [asked EXCEPT !.volumeUUID = volumeUUID,
                                         !.snapshotName = DriverSnapshotName(s, volumeUUID)]]
            /\ Goto(r, "sd_driver")
            /\ UNCHANGED result
    /\ UNCHANGED <<volumes, durable, UUIDIndex, SnapshotVolumeIndex, NameUUIDIndex,
                   driverSnapshots, backups, minted, index, lastOp, vfs, otherVars>>

\* SdDriver with s.UUIDIndex.Delete moved ahead of the driver call
SdDriver_IndexFirst(r) ==
    /\ pc[r] = "sd_driver"
    /\ UUIDIndex' = UUIDDelete(UUIDIndex, req[r].snapshot).set
    /\ \E ok \in BOOLEAN :
         IF ok
         THEN /\ driverSnapshots' = Remove(driverSnapshots, req[r].snapshot)
              /\ Goto(r, "sd_owner")
              /\ UNCHANGED result
         ELSE /\ Finish(r, "driver error")
              /\ UNCHANGED driverSnapshots
    /\ local' = [local EXCEPT ![r].calls = @ \cup {"UUIDIndex.Delete", "DeleteSnapshot"}]
    /\ UNCHANGED <<volumes, durable, SnapshotVolumeIndex, NameUUIDIndex,
                   backups, minted, GlobalLock, req, index, lastOp, vfs, otherVars, served>>

\* snapOps.DeleteSnapshot(snapshotUUID, opts)
SdDriver(r) ==
    /\ pc[r] = "sd_driver"
    /\ \E ok \in BOOLEAN :
         IF ok
         THEN /\ driverSnapshots' = Remove(driverSnapshots, req[r].snapshot)
              /\ Goto(r, "sd_uuid")
              /\ UNCHANGED result
         ELSE /\ Finish(r, "driver error")
              /\ UNCHANGED driverSnapshots
    /\ local' = [local EXCEPT ![r].calls = @ \cup {"DeleteSnapshot"}]
    /\ UNCHANGED <<volumes, durable, UUIDIndex, SnapshotVolumeIndex, NameUUIDIndex,
                   backups, minted, GlobalLock, req, index, lastOp, vfs, otherVars, served>>

\* SdUUID without s.UUIDIndex.Delete
SdUUID_Skip(r) ==
    /\ pc[r] = "sd_uuid"
    /\ Goto(r, "sd_owner")
    /\ UNCHANGED <<volumes, durable, UUIDIndex, SnapshotVolumeIndex, NameUUIDIndex,
                   driverSnapshots, backups, minted, GlobalLock, req, local, result,
                   index, lastOp, vfs, otherVars, served>>

\* s.UUIDIndex.Delete(snapshotUUID)
SdUUID(r) ==
    /\ pc[r] = "sd_uuid"
    /\ LET out == UUIDDelete(UUIDIndex, req[r].snapshot) IN
         /\ UUIDIndex' = out.set
         /\ IF out.err # Empty THEN Finish(r, out.err)
            ELSE Goto(r, "sd_owner") /\ UNCHANGED result
    /\ local' = [local EXCEPT ![r].calls = @ \cup {"UUIDIndex.Delete"}]
    /\ UNCHANGED <<volumes, durable, SnapshotVolumeIndex, NameUUIDIndex,
                   driverSnapshots, backups, minted, GlobalLock, req,
                   index, lastOp, vfs, otherVars, served>>

\* SdOwner without s.SnapshotVolumeIndex.Delete
SdOwner_Skip(r) ==
    /\ pc[r] = "sd_owner"
    /\ Goto(r, "sd_name")
    /\ UNCHANGED <<volumes, durable, UUIDIndex, SnapshotVolumeIndex, NameUUIDIndex,
                   driverSnapshots, backups, minted, GlobalLock, req, local, result,
                   index, lastOp, vfs, otherVars, served>>

\* s.SnapshotVolumeIndex.Delete(snapshotUUID)
SdOwner(r) ==
    /\ pc[r] = "sd_owner"
    /\ LET out == IndexDelete(SnapshotVolumeIndex, req[r].snapshot) IN
         /\ SnapshotVolumeIndex' = out.idx
         /\ IF out.err # Empty THEN Finish(r, out.err)
            ELSE Goto(r, "sd_name") /\ UNCHANGED result
    /\ local' = [local EXCEPT ![r].calls = @ \cup {"SnapshotVolumeIndex.Delete"}]
    /\ UNCHANGED <<volumes, durable, UUIDIndex, NameUUIDIndex,
                   driverSnapshots, backups, minted, GlobalLock, req,
                   index, lastOp, vfs, otherVars, served>>

\* if snapshotName != "" { s.NameUUIDIndex.Delete(snapshotName) }
SdName(r) ==
    /\ pc[r] = "sd_name"
    /\ LET out == IF local[r].snapshotName # Empty
                  THEN IndexDelete(NameUUIDIndex, local[r].snapshotName)
                  ELSE [idx |-> NameUUIDIndex, err |-> Empty] IN
         /\ NameUUIDIndex' = out.idx
         /\ IF out.err # Empty THEN Finish(r, out.err)
            ELSE Goto(r, "sd_map") /\ UNCHANGED result
    /\ local' = [local EXCEPT ![r].calls = IF local[r].snapshotName # Empty
                                            THEN @ \cup {"NameUUIDIndex.Delete"} ELSE @]
    /\ UNCHANGED <<volumes, durable, UUIDIndex, SnapshotVolumeIndex,
                   driverSnapshots, backups, minted, GlobalLock, req,
                   index, lastOp, vfs, otherVars, served>>

\* delete(volume.Snapshots, snapshotUUID)
SdMap(r) ==
    /\ pc[r] = "sd_map"
    /\ volumes' = [volumes EXCEPT ![local[r].volumeUUID] = Remove(@, req[r].snapshot)]
    /\ Goto(r, "sd_save")
    /\ UNCHANGED <<durable, UUIDIndex, SnapshotVolumeIndex, NameUUIDIndex,
                   driverSnapshots, backups, minted, GlobalLock, req, local, result,
                   index, lastOp, vfs, otherVars, served>>

\* return s.saveVolume(volume)
SdSave(r) ==
    /\ pc[r] = "sd_save"
    /\ \E ok \in BOOLEAN :
         IF ok
         THEN /\ durable' = [durable EXCEPT ![local[r].volumeUUID] =
                                               volumes[local[r].volumeUUID]]
              /\ Finish(r, "ok")
         ELSE /\ Finish(r, "save error")
              /\ UNCHANGED durable
    /\ UNCHANGED <<volumes, UUIDIndex, SnapshotVolumeIndex, NameUUIDIndex,
                   driverSnapshots, backups, minted, GlobalLock, req, local,
                   index, lastOp, vfs, otherVars, served>>


(***************************************************************************)
(* doSnapshotInspect (daemon/snapshot.go)                                  *)
(***************************************************************************)
\* what doSnapshotInspect returns for snapshotUUID: CheckUUID, the owner
\* lookup, loadVolume, getSnapshotDriverInfo, the response
SnapshotInspectResult(snapshotUUID) ==
    LET volumeUUID == IndexGet(SnapshotVolumeIndex, snapshotUUID) IN
    IF ~CheckUUID(snapshotUUID) THEN "invalid UUID"
    ELSE IF volumeUUID = Empty THEN "cannot find volume for snapshot"
    ELSE IF loadVolume(volumeUUID) = None THEN "cannot find volume"
    ELSE IF ~SnapshotOps(DriverOf(volumeUUID)) THEN "cannot find snapshot"
    ELSE IF ~HasDriverSnapshot(snapshotUUID, volumeUUID) THEN "cannot find snapshot"
    ELSE "ok"

\* s.GlobalLock.RLock(); decodeRequest; the lookups and the response
doSnapshotInspect(r, s) ==
    /\ pc[r] = "idle"
    /\ served < MaxRequests
    /\ served' = served + 1
    /\ CanRLock
    /\ GlobalLock' = RLock(r)
    /\ req' = [req EXCEPT ![r] = [NoRequest EXCEPT !.op = "SnapshotInspect",
                                                    !.snapshot = s]]
    /\ LET volumeUUID == IndexGet(SnapshotVolumeIndex, s) IN
       local' = IF ~CheckUUID(s) THEN local
                ELSE IF loadVolume(volumeUUID) # None /\ SnapshotOps(DriverOf(volumeUUID))
                THEN [local EXCEPT ![r].volumeUUID = volumeUUID,
                                   ![r].calls = {"SnapshotVolumeIndex.Get",
                                                 "GetSnapshotInfo"}]
                ELSE [local EXCEPT ![r].volumeUUID = volumeUUID,
                                   ![r].calls = {"SnapshotVolumeIndex.Get"}]
    /\ Finish(r, SnapshotInspectResult(s))
    /\ UNCHANGED <<volumes, durable, UUIDIndex, SnapshotVolumeIndex, NameUUIDIndex,
                   driverSnapshots, backups, minted, index, lastOp, vfs, otherVars>>

(***************************************************************************)
(* doBackupList, doBackupInspect, doBackupCreate, doBackupDelete           *)
(* (daemon/backup.go)                                                      *)
(***************************************************************************)
\* the schemes objectstore.GetObjectStoreDriver knows a backend for
ObjectStoreSchemes == {"vfs", "s3"}

\* a scheme url.Parse rejects
BadScheme == "1:"

\* objectstore.GetObjectStoreDriver(requestURL) returns no error
GetObjectStoreDriver(u) == u.scheme \in ObjectStoreSchemes

\* the backup object a URL names, if the destination holds one
BackupAt(u) == {b \in backups : /\ u.scheme = "vfs"
                                 /\ b.volume = u.volume
                                 /\ b.snapshot = u.snapshot}

\* objectstore.LoadVolume(backupURL): the volume metadata stored with the
\* backup, or an error
NoObjVolume == [volume |-> Empty, snapshot |-> Empty, driver |-> None]

LoadVolume(u) ==
    IF BackupAt(u) = {} THEN NoObjVolume ELSE CHOOSE b \in BackupAt(u) : TRUE

\* the URL objectstore.CreateSingleFileBackup returns: the destination path
\* is derived from the volume's and the snapshot's identifiers
BackupURL(volumeUUID, snapshotUUID) ==
    [scheme |-> "vfs", volume |-> volumeUUID, snapshot |-> snapshotUUID]

\* getBackupOpsForBackup taking the URL's scheme as the driver's name
\* whatever the scheme is
getBackupOpsForBackup_SchemeOnly(u) ==
    LET driverName == u.scheme IN
    IF u.scheme = BadScheme THEN [driver |-> None, err |-> "invalid URL"]
    ELSE IF driverName \notin ConvoyDrivers
         THEN [driver |-> None, err |-> "Cannot find driver for restoring"]
    ELSE IF ~BackupOps(driverName) THEN [driver |-> None, err |-> "not supported"]
    ELSE [driver |-> driverName, err |-> Empty]

\* s.getBackupOpsForBackup(requestURL): for a URL of an object store the
\* driver recorded in the stored volume metadata, for any other URL the
\* driver its scheme names; the driver's backup operations if it is loaded
\* and has them
getBackupOpsForBackup(u) ==
    LET objVolume == LoadVolume(u)
        driverName == IF GetObjectStoreDriver(u) THEN objVolume.driver ELSE u.scheme
    IN
    IF GetObjectStoreDriver(u) /\ objVolume = NoObjVolume
    THEN [driver |-> None, err |-> "backup not found"]
    ELSE IF ~GetObjectStoreDriver(u) /\ u.scheme = BadScheme
    THEN [driver |-> None, err |-> "invalid URL"]
    ELSE IF driverName \notin ConvoyDrivers
    THEN [driver |-> None, err |-> "Cannot find driver for restoring"]
    ELSE IF ~BackupOps(driverName) THEN [driver |-> None, err |-> "not supported"]
    ELSE [driver |-> driverName, err |-> Empty]

NoInfo == [VolumeUUID |-> Empty, SnapshotUUID |-> Empty, DriverName |-> None]

\* Driver.GetBackupInfo(backupURL) of driver d
GetBackupInfo(d, u) ==
    LET objVolume == LoadVolume(u) IN
    IF objVolume = NoObjVolume THEN [info |-> NoInfo, err |-> "backup not found"]
    ELSE IF objVolume.driver # d
         THEN [info |-> NoInfo, err |-> "BUG: Wrong driver handling DeleteBackup()"]
    ELSE [info |-> [VolumeUUID |-> objVolume.volume, SnapshotUUID |-> objVolume.snapshot,
                    DriverName |-> objVolume.driver],
          err |-> Empty]

\* DeleteBackup without the check of the recorded driver
DeleteBackup_NoDriverCheck(d, u, ok) ==
    LET objVolume == LoadVolume(u) IN
    IF objVolume = NoObjVolume THEN [backups |-> backups, err |-> "backup not found"]
    ELSE IF ok THEN [backups |-> backups \ BackupAt(u), err |-> Empty]
    ELSE [backups |-> backups, err |-> "driver error"]

\* Driver.DeleteBackup(backupURL) of driver d; ok is whether
\* objectstore.DeleteSingleFileBackup succeeds
DeleteBackup(d, u, ok) ==
    LET objVolume == LoadVolume(u) IN
    IF objVolume = NoObjVolume THEN [backups |-> backups, err |-> "backup not found"]
    ELSE IF objVolume.driver # d
         THEN [backups |-> backups, err |-> "BUG: Wrong driver handling DeleteBackup()"]
    ELSE IF ok THEN [backups |-> backups \ BackupAt(u), err |-> Empty]
    ELSE [backups |-> backups, err |-> "driver error"]

\* what doBackupInspect returns for a URL: getBackupOpsForBackup,
\* GetBackupInfo, the response
BackupInspectResult(u) ==
    LET ops == getBackupOpsForBackup(u) IN
    IF ops.err # Empty THEN ops.err
    ELSE IF GetBackupInfo(ops.driver, u).err # Empty THEN GetBackupInfo(ops.driver, u).err
    ELSE "ok"

\* Driver.ListBackup(destURL, opts) of driver d: objectstore.List of the
\* backups recorded with d
ListBackup(d) == {b \in backups : b.driver = d}

\* the loaded drivers doBackupList calls ListBackup on
Listing == {d \in ConvoyDrivers : BackupOps(d)}

\* doBackupList returning the BackupOps error of a driver that has no
\* backup operations
doBackupList_NoSkip(r) ==
    /\ pc[r] = "idle"
    /\ served < MaxRequests
    /\ served' = served + 1
    /\ CanRLock
    /\ GlobalLock' = RLock(r)
    /\ req' = [req EXCEPT ![r] = [NoRequest EXCEPT !.op = "BackupList"]]
    /\ \E ok \in BOOLEAN :
         IF Listing # ConvoyDrivers
         THEN ok /\ Finish(r, "not supported") /\ UNCHANGED local
         ELSE IF Listing = {}
         THEN ok /\ Finish(r, "ok") /\ UNCHANGED local
         ELSE IF ok
         THEN /\ Finish(r, "ok")
              /\ local' = [local EXCEPT ![r].calls = {"ListBackup"},
                                         ![r].listing = UNION {ListBackup(d) : d \in Listing}]
         ELSE /\ Finish(r, "driver error")
              /\ local' = [local EXCEPT ![r].calls = {"ListBackup"}]
    /\ UNCHANGED <<volumes, durable, UUIDIndex, SnapshotVolumeIndex, NameUUIDIndex,
                   driverSnapshots, backups, minted, index, lastOp, vfs, otherVars>>

\* s.GlobalLock.RLock(); decodeRequest; for every loaded driver: BackupOps,
\* the driver skipped if it has none, ListBackup, its error returned, its
\* result merged into the response; ok is whether every ListBackup succeeds
doBackupList(r) ==
    /\ pc[r] = "idle"
    /\ served < MaxRequests
    /\ served' = served + 1
    /\ CanRLock
    /\ GlobalLock' = RLock(r)
    /\ req' = [req EXCEPT ![r] = [NoRequest EXCEPT !.op = "BackupList"]]
    /\ \E ok \in BOOLEAN :
         IF Listing = {}
         THEN ok /\ Finish(r, "ok") /\ UNCHANGED local
         ELSE IF ok
         THEN /\ Finish(r, "ok")
              /\ local' = [local EXCEPT ![r].calls = {"ListBackup"},
                                         ![r].listing = UNION {ListBackup(d) : d \in Listing}]
         ELSE /\ Finish(r, "driver error")
              /\ local' = [local EXCEPT ![r].calls = {"ListBackup"}]
    /\ UNCHANGED <<volumes, durable, UUIDIndex, SnapshotVolumeIndex, NameUUIDIndex,
                   driverSnapshots, backups, minted, index, lastOp, vfs, otherVars>>

\* s.GlobalLock.RLock(); decodeRequest; getBackupOpsForBackup, GetBackupInfo
doBackupInspect(r, u) ==
    /\ pc[r] = "idle"
    /\ served < MaxRequests
    /\ served' = served + 1
    /\ CanRLock
    /\ GlobalLock' = RLock(r)
    /\ req' = [req EXCEPT ![r] = [NoRequest EXCEPT !.op = "BackupInspect", !.url = u]]
    /\ local' = IF getBackupOpsForBackup(u).err # Empty THEN local
                ELSE [local EXCEPT ![r].calls = {"GetBackupInfo"}]
    /\ Finish(r, BackupInspectResult(u))
    /\ UNCHANGED <<volumes, durable, UUIDIndex, SnapshotVolumeIndex, NameUUIDIndex,
                   driverSnapshots, backups, minted, index, lastOp, vfs, otherVars>>

\* BcResolve behind s.GlobalLock.Lock(), held until the handler returns
BcResolve_Locked(r, s) ==
    /\ pc[r] = "idle"
    /\ served < MaxRequests
    /\ served' = served + 1
    /\ CanLock
    /\ GlobalLock' = Lock(r)
    /\ req' = [req EXCEPT ![r] = [NoRequest EXCEPT !.op = "BackupCreate",
                                                    !.snapshot = s]]
    /\ LET volumeUUID == IndexGet(SnapshotVolumeIndex, s) IN
         /\ local' = [local EXCEPT ![r] =
                         [NoLocal EXCEPT !.volumeUUID = volumeUUID,
                                         !.calls = {"SnapshotVolumeIndex.Get"}]]
         /\ IF volumeUUID = Empty THEN Finish(r, "cannot find volume of snapshot")
            ELSE Goto(r, "bc_exists") /\ UNCHANGED result
    /\ UNCHANGED <<volumes, durable, UUIDIndex, SnapshotVolumeIndex, NameUUIDIndex,
                   driverSnapshots, backups, minted, index, lastOp, vfs, otherVars>>

\* BcResolve behind s.GlobalLock.RLock(), held until the handler returns
BcResolve_RLocked(r, s) ==
    /\ pc[r] = "idle"
    /\ served < MaxRequests
    /\ served' = served + 1
    /\ CanRLock
    /\ GlobalLock' = RLock(r)
    /\ req' = [req EXCEPT ![r] = [NoRequest EXCEPT !.op = "BackupCreate",
                                                    !.snapshot = s]]
    /\ LET volumeUUID == IndexGet(SnapshotVolumeIndex, s) IN
         /\ local' = [local EXCEPT ![r] =
                         [NoLocal EXCEPT !.volumeUUID = volumeUUID,
                                         !.calls = {"SnapshotVolumeIndex.Get"}]]
         /\ IF volumeUUID = Empty THEN Finish(r, "cannot find volume of snapshot")
            ELSE Goto(r, "bc_exists") /\ UNCHANGED result
    /\ UNCHANGED <<volumes, durable, UUIDIndex, SnapshotVolumeIndex, NameUUIDIndex,
                   driverSnapshots, backups, minted, index, lastOp, vfs, otherVars>>

\* decodeRequest; s.SnapshotVolumeIndex.Get(snapshotUUID): no lock is taken
BcResolve(r, s) ==
    /\ pc[r] = "idle"
    /\ served < MaxRequests
    /\ served' = served + 1
    /\ req' = [req EXCEPT ![r] = [NoRequest EXCEPT !.op = "BackupCreate",
                                                    !.snapshot = s]]
    /\ LET volumeUUID == IndexGet(SnapshotVolumeIndex, s) IN
         /\ local' = [local EXCEPT ![r] =
                         [NoLocal EXCEPT !.volumeUUID = volumeUUID,
                                         !.calls = {"SnapshotVolumeIndex.Get"}]]
         /\ IF volumeUUID = Empty THEN Finish(r, "cannot find volume of snapshot")
            ELSE Goto(r, "bc_exists") /\ UNCHANGED result
    /\ UNCHANGED <<volumes, durable, UUIDIndex, SnapshotVolumeIndex, NameUUIDIndex,
                   driverSnapshots, backups, minted, GlobalLock, index, lastOp, vfs, otherVars>>

\* s.snapshotExists(volumeUUID, snapshotUUID)
BcExists(r) ==
    /\ pc[r] = "bc_exists"
    /\ IF ~snapshotExists(local[r].volumeUUID, req[r].snapshot)
       THEN Finish(r, "snapshot doesn't exist")
       ELSE Goto(r, "bc_info") /\ UNCHANGED result
    /\ UNCHANGED <<volumes, durable, UUIDIndex, SnapshotVolumeIndex, NameUUIDIndex,
                   driverSnapshots, backups, minted, GlobalLock, req, local,
                   index, lastOp, vfs, otherVars, served>>

\* getVolume, getBackupOpsForVolume, getVolumeDriverInfo, getSnapshotDriverInfo
BcInfo(r) ==
    /\ pc[r] = "bc_info"
    /\ IF ~BackupOps(DriverOf(local[r].volumeUUID))
       THEN Finish(r, "not supported") /\ UNCHANGED local
       ELSE /\ local' = [local EXCEPT ![r].calls =
                                         @ \cup {"GetVolumeInfo", "GetSnapshotInfo"}]
            /\ IF ~HasDriverSnapshot(req[r].snapshot, local[r].volumeUUID)
               THEN Finish(r, "snapshot doesn't exist in driver")
               ELSE Goto(r, "bc_start") /\ UNCHANGED result
    /\ UNCHANGED <<volumes, durable, UUIDIndex, SnapshotVolumeIndex, NameUUIDIndex,
                   driverSnapshots, backups, minted, GlobalLock, req,
                   index, lastOp, vfs, otherVars, served>>

\* backupOps.CreateBackup: the driver looks the snapshot up and starts the
\* transfer of its file
BcStart(r) ==
    /\ pc[r] = "bc_start"
    /\ IF ~HasDriverSnapshot(req[r].snapshot, local[r].volumeUUID)
       THEN Finish(r, "cannot find snapshot for volume")
       ELSE Goto(r, "bc_upload") /\ UNCHANGED result
    /\ local' = [local EXCEPT ![r].calls = @ \cup {"CreateBackup"}]
    /\ UNCHANGED <<volumes, durable, UUIDIndex, SnapshotVolumeIndex, NameUUIDIndex,
                   driverSnapshots, backups, minted, GlobalLock, req,
                   index, lastOp, vfs, otherVars, served>>

\* BcUpload storing the backup's volume metadata without the driver's name
BcUpload_NoDriver(r) ==
    /\ pc[r] = "bc_upload"
    /\ \E ok \in BOOLEAN :
         IF ok
         THEN /\ backups' = backups \cup
                   {[volume |-> local[r].volumeUUID, snapshot |-> req[r].snapshot,
                     driver |-> Empty]}
              /\ local' = [local EXCEPT ![r].backupURL =
                                BackupURL(local[r].volumeUUID, req[r].snapshot)]
              /\ Finish(r, "ok")
         ELSE /\ Finish(r, "driver error")
              /\ UNCHANGED <<backups, local>>
    /\ UNCHANGED <<volumes, durable, UUIDIndex, SnapshotVolumeIndex, NameUUIDIndex,
                   driverSnapshots, minted, GlobalLock, req, index, lastOp, vfs, otherVars, served>>

\* objectstore.CreateSingleFileBackup returns; the response
BcUpload(r) ==
    /\ pc[r] = "bc_upload"
    /\ \E ok \in BOOLEAN :
         IF ok
         THEN /\ backups' = backups \cup
                   {[volume |-> local[r].volumeUUID, snapshot |-> req[r].snapshot,
                     driver |-> DriverOf(local[r].volumeUUID)]}
              /\ local' = [local EXCEPT ![r].backupURL =
                                BackupURL(local[r].volumeUUID, req[r].snapshot)]
              /\ Finish(r, "ok")
         ELSE /\ Finish(r, "driver error")
              /\ UNCHANGED <<backups, local>>
    /\ UNCHANGED <<volumes, durable, UUIDIndex, SnapshotVolumeIndex, NameUUIDIndex,
                   driverSnapshots, minted, GlobalLock, req, index, lastOp, vfs, otherVars, served>>

\* doBackupDelete dropping the backup's snapshot from the Snapshot-Volume
\* index as well
doBackupDelete_ForgetsSnapshot(r, u) ==
    /\ pc[r] = "idle"
    /\ served < MaxRequests
    /\ served' = served + 1
    /\ CanLock
    /\ GlobalLock' = Lock(r)
    /\ req' = [req EXCEPT ![r] = [NoRequest EXCEPT !.op = "BackupDelete", !.url = u]]
    /\ local' = [local EXCEPT ![r] =
                    [NoLocal EXCEPT !.pre = Metadata,
                                    !.preDriver = driverSnapshots,
                                    !.duringUpload = Uploading,
                                    !.calls = IF getBackupOpsForBackup(u).err # Empty
                                              THEN {} ELSE {"DeleteBackup"}]]
    /\ LET ops == getBackupOpsForBackup(u) IN
       IF ops.err # Empty
       THEN Finish(r, ops.err) /\ UNCHANGED <<backups, SnapshotVolumeIndex>>
       ELSE \E ok \in BOOLEAN :
              LET out == DeleteBackup(ops.driver, u, ok) IN
              /\ backups' = out.backups
              /\ SnapshotVolumeIndex' = IF out.err = Empty
                                        THEN Remove(SnapshotVolumeIndex, u.snapshot)
                                        ELSE SnapshotVolumeIndex
              /\ Finish(r, IF out.err = Empty THEN "ok" ELSE out.err)
    /\ UNCHANGED <<volumes, durable, UUIDIndex, NameUUIDIndex,
                   driverSnapshots, minted, index, lastOp, vfs, otherVars>>

\* s.GlobalLock.Lock(); decodeRequest; getBackupOpsForBackup,
\* backupOps.DeleteBackup
doBackupDelete(r, u) ==
    /\ pc[r] = "idle"
    /\ served < MaxRequests
    /\ served' = served + 1
    /\ CanLock
    /\ GlobalLock' = Lock(r)
    /\ req' = [req EXCEPT ![r] = [NoRequest EXCEPT !.op = "BackupDelete", !.url = u]]
    /\ local' = [local EXCEPT ![r] =
                    [NoLocal EXCEPT !.pre = Metadata,
                                    !.preDriver = driverSnapshots,
                                    !.duringUpload = Uploading,
                                    !.calls = IF getBackupOpsForBackup(u).err # Empty
                                              THEN {} ELSE {"DeleteBackup"}]]
    /\ LET ops == getBackupOpsForBackup(u) IN
       IF ops.err # Empty
       THEN Finish(r, ops.err) /\ UNCHANGED backups
       ELSE \E ok \in BOOLEAN :
              LET out == DeleteBackup(ops.driver, u, ok) IN
              /\ backups' = out.backups
              /\ Finish(r, IF out.err = Empty THEN "ok" ELSE out.err)
    /\ UNCHANGED <<volumes, durable, UUIDIndex, SnapshotVolumeIndex, NameUUIDIndex,
                   driverSnapshots, minted, index, lastOp, vfs, otherVars>>

(***************************************************************************)
(* The handler returns: its deferred Unlock / RUnlock runs and the slot    *)
(* is free for the next request.                                           *)
(***************************************************************************)
Return(r) ==
    /\ pc[r] = "ret"
    /\ GlobalLock' = Unlock(r)
    /\ pc' = [pc EXCEPT ![r] = "idle"]
    /\ req' = [req EXCEPT ![r] = NoRequest]
    /\ local' = [local EXCEPT ![r] = NoLocal]
    /\ result' = [result EXCEPT ![r] = Empty]
    /\ UNCHANGED <<volumes, durable, UUIDIndex, SnapshotVolumeIndex, NameUUIDIndex,
                   driverSnapshots, backups, minted, index, lastOp, vfs, otherVars, served>>

\* what a request can carry
VolumeArgs == Volumes \cup {AbsentVolume, BadUUID}

NameArgs == Names \cup {Empty, BadName}

SnapshotArgs == SnapUUIDs \cup {BadUUID}

Next ==
    \E r \in Requests :
        \/ \E v \in VolumeArgs, n \in NameArgs : ScEnter(r, v, n)
        \/ ScDriver(r)
        \/ ScMap(r)
        \/ ScUUID(r)
        \/ ScOwner(r)
        \/ ScName(r)
        \/ ScSave(r)
        \/ \E s \in SnapshotArgs : SdEnter(r, s)
        \/ SdDriver(r)
        \/ SdUUID(r)
        \/ SdOwner(r)
        \/ SdName(r)
        \/ SdMap(r)
        \/ SdSave(r)
        \/ \E s \in SnapshotArgs : doSnapshotInspect(r, s)
        \/ doBackupList(r)
        \/ \E u \in BackupURLs : doBackupInspect(r, u)
        \/ \E s \in SnapUUIDs : BcResolve(r, s)
        \/ BcExists(r)
        \/ BcInfo(r)
        \/ BcStart(r)
        \/ BcUpload(r)
        \/ \E u \in BackupURLs : doBackupDelete(r, u)
        \/ Return(r)

Spec == Init /\ [][Next]_vars

(***************************************************************************)
(* A stand-alone util.Index driven by arbitrary Add, Get and Delete calls  *)
(***************************************************************************)
IndexKeys == {Empty, "key1", "key2"}

IndexValues == {Empty, "value1", "value2"}

\* how many calls before the last one the test keeps
MaxEarlier == 2

\* the calls before the one being made, the most recent first
Earlier ==
    IF lastOp.op = None THEN <<>>
    ELSE LET all == <<[op |-> lastOp.op, key |-> lastOp.key, value |-> lastOp.value,
                       out |-> lastOp.out]>> \o lastOp.earlier
         IN SubSeq(all, 1, IF Len(all) < MaxEarlier THEN Len(all) ELSE MaxEarlier)

\* index.Add(key, value)
Add(key, value) ==
    /\ LET out == IndexAdd(index, key, value) IN
         /\ index' = out.idx
         /\ lastOp' = [op |-> "Add", key |-> key, value |-> value, out |-> out.err,
                       before |-> index, earlier |-> Earlier]
    /\ UNCHANGED <<daemonVars, vfsVars, otherVars>>

\* index.Get(key)
Get(key) ==
    /\ lastOp' = [op |-> "Get", key |-> key, value |-> Empty,
                  out |-> IndexGet(index, key), before |-> index, earlier |-> Earlier]
    /\ UNCHANGED <<index, daemonVars, vfsVars, otherVars>>

\* index.Delete(key)
Delete(key) ==
    /\ LET out == IndexDelete(index, key) IN
         /\ index' = out.idx
         /\ lastOp' = [op |-> "Delete", key |-> key, value |-> Empty, out |-> out.err,
                       before |-> index, earlier |-> Earlier]
    /\ UNCHANGED <<daemonVars, vfsVars, otherVars>>

IndexNext ==
    \/ \E key \in IndexKeys, value \in IndexValues : Add(key, value)
    \/ \E key \in IndexKeys : Get(key)
    \/ \E key \in IndexKeys : Delete(key)

IndexSpec == Init /\ [][IndexNext]_vars


(***************************************************************************)
(* The vfs driver called directly (vfs/vfs_storage.go): CreateVolume with  *)
(* and without a backup to restore, DeleteBackup and GetBackupInfo, on a   *)
(* destination that holds backups taken by the vfs driver and by others.   *)
(* Each call runs under d.mutex or touches the driver's state once, so a   *)
(* call is one step.                                                       *)
(***************************************************************************)
\* the ids CreateVolume is called with
VfsVolumeIDs == {"v1", "v4"}

\* opts[OPT_VOLUME_NAME]
VolumeNameArgs == {Empty, "data"}

\* opts[OPT_PREPARE_FOR_VM] and what strconv.ParseBool makes of it
PrepareForVMArgs == {"true", "false", Empty}

ParseBool(str) == [value |-> str = "true", ok |-> str \in {"true", "false"}]

\* opts[OPT_SIZE] and whether util.ParseSize accepts it
SizeArgs == {Empty, "m"}

ParseSizeOK(size) == size # "m"

\* the file-system or object-store call of CreateVolume that fails, if any
Failures == {"none", "mkdir", "restore", "decompress", "save"}

\* the backups the destination can hold: one per URL at most, each recorded
\* with the driver that took it
VfsURLs == {u \in BackupURLs : u.snapshot = UUIDPool[1]}

VfsStores ==
    {st \in SUBSET [volume : {u.volume : u \in VfsURLs},
                    snapshot : {u.snapshot : u \in VfsURLs},
                    driver : {"vfs", "devicemapper"}] :
        \A b1, b2 \in st : b1.volume = b2.volume /\ b1.snapshot = b2.snapshot => b1 = b2}

VfsVolumes == [configs |-> vfs.configs, dirs |-> vfs.dirs, blobs |-> vfs.blobs,
               volume |-> vfs.volume]

handlerVars == <<volumes, durable, UUIDIndex, SnapshotVolumeIndex, NameUUIDIndex,
                 driverSnapshots, minted, served, GlobalLock, pc, req, local, result>>

VfsInit ==
    /\ volumes = [v \in Volumes |-> EmptyIndex]
    /\ durable = [v \in Volumes |-> EmptyIndex]
    /\ UUIDIndex = Volumes
    /\ SnapshotVolumeIndex = EmptyIndex
    /\ NameUUIDIndex = EmptyIndex
    /\ driverSnapshots = EmptyIndex
    /\ backups \in VfsStores
    /\ minted = 0
    /\ served = 0
    /\ GlobalLock = [writer |-> None, readers |-> {}]
    /\ pc = [r \in Requests |-> "idle"]
    /\ req = [r \in Requests |-> NoRequest]
    /\ local = [r \in Requests |-> NoLocal]
    /\ result = [r \in Requests |-> Empty]
    /\ index = EmptyIndex
    /\ lastOp = NoLastOp
    /\ vfs = NoVfs
    /\ OtherInit

\* CreateVolume making the volume directory before it checks the driver the
\* backup records
CreateVolume_LateCheck(id, backupURL, volumeName, prepareForVM, size, failAt) ==
    LET objVolume == LoadVolume(backupURL)
        volumePath == IF volumeName = Empty THEN "volume-" \o id ELSE volumeName
        restore == backupURL # NoURL
        return(out, configs, dirs, blobs) ==
            vfs' = [configs |-> configs, dirs |-> dirs, blobs |-> blobs,
                    volume |-> [x \in configs |->
                                  IF x \in vfs.configs THEN vfs.volume[x]
                                  ELSE [Path |-> volumePath, MountPoint |-> Empty]],
                    last |-> [op |-> "CreateVolume", id |-> id, url |-> backupURL,
                              out |-> out, before |-> VfsVolumes, stored |-> backups]]
    IN
    /\ IF restore /\ objVolume = NoObjVolume
       THEN return("backup not found", vfs.configs, vfs.dirs, vfs.blobs)
       ELSE IF id \in vfs.configs
       THEN return("volume already exists", vfs.configs, vfs.dirs, vfs.blobs)
       ELSE IF ~ParseBool(prepareForVM).ok
       THEN return("strconv.ParseBool: invalid syntax", vfs.configs, vfs.dirs, vfs.blobs)
       ELSE IF ParseBool(prepareForVM).value /\ ~ParseSizeOK(size)
       THEN return("strconv.ParseInt: invalid syntax", vfs.configs, vfs.dirs, vfs.blobs)
       ELSE IF failAt = "mkdir"
       THEN return("mkdir error", vfs.configs, vfs.dirs, vfs.blobs)
       ELSE IF restore /\ objVolume.driver # "vfs"
       THEN return("Cannot restore backup of " \o objVolume.driver \o " to vfs",
                   vfs.configs, vfs.dirs \cup {volumePath}, vfs.blobs)
       ELSE IF restore /\ failAt = "restore"
       THEN return("restore error", vfs.configs, vfs.dirs \cup {volumePath}, vfs.blobs)
       ELSE IF restore /\ failAt = "decompress"
       THEN return("decompress error", vfs.configs, vfs.dirs \cup {volumePath},
                   vfs.blobs \cup {volumePath})
       ELSE IF failAt = "save"
       THEN return("save error", vfs.configs, vfs.dirs \cup {volumePath},
                   IF restore THEN vfs.blobs \cup {volumePath} ELSE vfs.blobs)
       ELSE return(Empty, vfs.configs \cup {id}, vfs.dirs \cup {volumePath},
                   IF restore THEN vfs.blobs \cup {volumePath} ELSE vfs.blobs)
    /\ UNCHANGED <<handlerVars, backups, indexVars, otherVars>>

\* Driver.CreateVolume(id, opts): the check of the backup's driver, the
\* existence check, the options, the volume directory, the restore and the
\* save of the volume's config record
CreateVolume(id, backupURL, volumeName, prepareForVM, size, failAt) ==
    LET objVolume == LoadVolume(backupURL)
        volumePath == IF volumeName = Empty THEN "volume-" \o id ELSE volumeName
        restore == backupURL # NoURL
        return(out, configs, dirs, blobs) ==
            vfs' = [configs |-> configs, dirs |-> dirs, blobs |-> blobs,
                    volume |-> [x \in configs |->
                                  IF x \in vfs.configs THEN vfs.volume[x]
                                  ELSE [Path |-> volumePath, MountPoint |-> Empty]],
                    last |-> [op |-> "CreateVolume", id |-> id, url |-> backupURL,
                              out |-> out, before |-> VfsVolumes, stored |-> backups]]
    IN
    /\ IF restore /\ objVolume = NoObjVolume
       THEN return("backup not found", vfs.configs, vfs.dirs, vfs.blobs)
       ELSE IF restore /\ objVolume.driver # "vfs"
       THEN return("Cannot restore backup of " \o objVolume.driver \o " to vfs",
                   vfs.configs, vfs.dirs, vfs.blobs)
       ELSE IF id \in vfs.configs
       THEN return("volume already exists", vfs.configs, vfs.dirs, vfs.blobs)
       ELSE IF ~ParseBool(prepareForVM).ok
       THEN return("strconv.ParseBool: invalid syntax", vfs.configs, vfs.dirs, vfs.blobs)
       ELSE IF ParseBool(prepareForVM).value /\ ~ParseSizeOK(size)
       THEN return("strconv.ParseInt: invalid syntax", vfs.configs, vfs.dirs, vfs.blobs)
       ELSE IF failAt = "mkdir"
       THEN return("mkdir error", vfs.configs, vfs.dirs, vfs.blobs)
       ELSE IF restore /\ failAt = "restore"
       THEN return("restore error", vfs.configs, vfs.dirs \cup {volumePath}, vfs.blobs)
       ELSE IF restore /\ failAt = "decompress"
       THEN return("decompress error", vfs.configs, vfs.dirs \cup {volumePath},
                   vfs.blobs \cup {volumePath})
       ELSE IF failAt = "save"
       THEN return("save error", vfs.configs, vfs.dirs \cup {volumePath},
                   IF restore THEN vfs.blobs \cup {volumePath} ELSE vfs.blobs)
       ELSE return(Empty, vfs.configs \cup {id}, vfs.dirs \cup {volumePath},
                   IF restore THEN vfs.blobs \cup {volumePath} ELSE vfs.blobs)
    /\ UNCHANGED <<handlerVars, backups, indexVars, otherVars>>

\* Driver.DeleteBackup(backupURL) called on the vfs driver
VfsDeleteBackup(u) ==
    /\ \E ok \in BOOLEAN :
         LET out == DeleteBackup("vfs", u, ok) IN
         /\ backups' = out.backups
         /\ vfs' = [vfs EXCEPT !.last = [op |-> "DeleteBackup", id |-> Empty, url |-> u,
                                         out |-> out.err, before |-> VfsVolumes,
                                         stored |-> backups]]
    /\ UNCHANGED <<handlerVars, indexVars, otherVars>>

\* Driver.GetBackupInfo(backupURL) called on the vfs driver
VfsGetBackupInfo(u) ==
    /\ vfs' = [vfs EXCEPT !.last = [op |-> "GetBackupInfo", id |-> Empty, url |-> u,
                                    out |-> GetBackupInfo("vfs", u).err,
                                    before |-> VfsVolumes, stored |-> backups]]
    /\ UNCHANGED <<handlerVars, backups, indexVars, otherVars>>

VfsNext ==
    \/ \E id \in VfsVolumeIDs, backupURL \in VfsURLs \cup {NoURL},
          volumeName \in VolumeNameArgs, prepareForVM \in PrepareForVMArgs,
          size \in SizeArgs, failAt \in Failures :
            CreateVolume(id, backupURL, volumeName, prepareForVM, size, failAt)
    \/ \E u \in VfsURLs : VfsDeleteBackup(u)
    \/ \E u \in VfsURLs : VfsGetBackupInfo(u)

VfsSpec == VfsInit /\ [][VfsNext]_vars

(***************************************************************************)
(* The vfs driver's DeleteVolume, MountVolume, UmountVolume and            *)
(* GetVolumeInfo.  Each is given as what it leaves of the driver's         *)
(* volumes and what it returns, and as the call made on the driver.        *)
(***************************************************************************)
\* util.ObjectLoad(volume) finds the volume's config record
ObjectLoad(id) == id \in vfs.configs

\* opts[OPT_MOUNT_POINT]
MountPointArgs == {Empty, "/mnt"}

\* the file-system call of a volume operation that fails, if any
VolumeFailures == {"none", "rm", "prepare", "save", "delete"}

Returns(out, left) == [out |-> out, volumes |-> left]

\* DeleteVolume without the check of the volume's MountPoint
DeleteVolumeResult_NoMountCheck(id, referenceOnly, failAt) ==
    IF ~ObjectLoad(id) THEN Returns("no such volume", VfsVolumes)
    ELSE IF ~referenceOnly /\ failAt = "rm"
    THEN Returns("Fail to cleanup the volume", VfsVolumes)
    ELSE LET dirs == IF referenceOnly THEN vfs.dirs
                     ELSE vfs.dirs \ {vfs.volume[id].Path}
             blobs == IF referenceOnly THEN vfs.blobs
                      ELSE vfs.blobs \ {vfs.volume[id].Path}
         IN IF failAt = "delete"
            THEN Returns("delete error", [VfsVolumes EXCEPT !.dirs = dirs,
                                                              !.blobs = blobs])
            ELSE Returns(Empty, [configs |-> vfs.configs \ {id}, dirs |-> dirs,
                                 blobs |-> blobs, volume |-> Remove(vfs.volume, id)])

\* Driver.DeleteVolume(id, opts): ObjectLoad, the MountPoint check, rm -rf of
\* the volume's Path unless opts[OPT_REFERENCE_ONLY], ObjectDelete
DeleteVolumeResult(id, referenceOnly, failAt) ==
    IF ~ObjectLoad(id) THEN Returns("no such volume", VfsVolumes)
    ELSE IF vfs.volume[id].MountPoint # Empty
    THEN Returns("Cannot delete volume. It is still mounted", VfsVolumes)
    ELSE IF ~referenceOnly /\ failAt = "rm"
    THEN Returns("Fail to cleanup the volume", VfsVolumes)
    ELSE LET dirs == IF referenceOnly THEN vfs.dirs
                     ELSE vfs.dirs \ {vfs.volume[id].Path}
             blobs == IF referenceOnly THEN vfs.blobs
                      ELSE vfs.blobs \ {vfs.volume[id].Path}
         IN IF failAt = "delete"
            THEN Returns("delete error", [VfsVolumes EXCEPT !.dirs = dirs,
                                                              !.blobs = blobs])
            ELSE Returns(Empty, [configs |-> vfs.configs \ {id}, dirs |-> dirs,
                                 blobs |-> blobs, volume |-> Remove(vfs.volume, id)])

\* Driver.MountVolume(id, opts): ObjectLoad, no mount point may be named,
\* MountPoint becomes Path if empty, MountPointPrepareImageFile for a VM
\* volume, ObjectSave; the mount point is returned.  The record's
\* PrepareForVM is not kept: prepareForVM is either value it can have
MountVolumeResult(id, specifiedPoint, prepareForVM, failAt) ==
    IF ~ObjectLoad(id) THEN Returns("no such volume", VfsVolumes)
    ELSE IF specifiedPoint # Empty
    THEN Returns("VFS doesn't support specified mount point", VfsVolumes)
    ELSE IF prepareForVM /\ failAt = "prepare"
    THEN Returns("prepare error", VfsVolumes)
    ELSE IF failAt = "save" THEN Returns("save error", VfsVolumes)
    ELSE LET mountPoint == IF vfs.volume[id].MountPoint = Empty
                           THEN vfs.volume[id].Path ELSE vfs.volume[id].MountPoint
         IN Returns(Empty, [VfsVolumes EXCEPT !.volume[id].MountPoint = mountPoint])

\* Driver.UmountVolume(id): ObjectLoad, MountPoint becomes empty, ObjectSave
UmountVolumeResult(id, failAt) ==
    IF ~ObjectLoad(id) THEN Returns("no such volume", VfsVolumes)
    ELSE IF failAt = "save" THEN Returns("save error", VfsVolumes)
    ELSE Returns(Empty, [VfsVolumes EXCEPT !.volume[id].MountPoint = Empty])

\* Driver.GetVolumeInfo(id): ObjectLoad and the record's fields
GetVolumeInfoResult(id) ==
    IF ~ObjectLoad(id) THEN Returns("no such volume", VfsVolumes)
    ELSE Returns(Empty, VfsVolumes)

\* the driver's state after a call of op on id that returned ret
Called(op, id, ret) ==
    [configs |-> ret.volumes.configs, dirs |-> ret.volumes.dirs,
     blobs |-> ret.volumes.blobs, volume |-> ret.volumes.volume,
     last |-> [op |-> op, id |-> id, url |-> NoURL, out |-> ret.out,
               before |-> VfsVolumes, stored |-> backups]]

DeleteVolume(id, referenceOnly, failAt) ==
    /\ vfs' = Called("DeleteVolume", id, DeleteVolumeResult(id, referenceOnly, failAt))
    /\ UNCHANGED <<handlerVars, backups, indexVars, otherVars>>

MountVolume(id, specifiedPoint, prepareForVM, failAt) ==
    /\ vfs' = Called("MountVolume", id,
                     MountVolumeResult(id, specifiedPoint, prepareForVM, failAt))
    /\ UNCHANGED <<handlerVars, backups, indexVars, otherVars>>

UmountVolume(id, failAt) ==
    /\ vfs' = Called("UmountVolume", id, UmountVolumeResult(id, failAt))
    /\ UNCHANGED <<handlerVars, backups, indexVars, otherVars>>

GetVolumeInfo(id) ==
    /\ vfs' = Called("GetVolumeInfo", id, GetVolumeInfoResult(id))
    /\ UNCHANGED <<handlerVars, backups, indexVars, otherVars>>

MountNext ==
    \/ \E id \in VfsVolumeIDs, volumeName \in VolumeNameArgs,
          prepareForVM \in {"true", "false"} :
            CreateVolume(id, NoURL, volumeName, prepareForVM, Empty, "none")
    \/ \E id \in VfsVolumeIDs, referenceOnly \in BOOLEAN, failAt \in VolumeFailures :
            DeleteVolume(id, referenceOnly, failAt)
    \/ \E id \in VfsVolumeIDs, specifiedPoint \in MountPointArgs,
          prepareForVM \in BOOLEAN, failAt \in VolumeFailures :
            MountVolume(id, specifiedPoint, prepareForVM, failAt)
    \/ \E id \in VfsVolumeIDs, failAt \in VolumeFailures : UmountVolume(id, failAt)
    \/ \E id \in VfsVolumeIDs : GetVolumeInfo(id)

MountSpec == Init /\ [][MountNext]_vars

(***************************************************************************)
(* The drivers' locking.  Two callers run the mutating operations of the   *)
(* vfs, nfs and ceph drivers on one volume name; a step is one acquisition *)
(* of a mutex, one critical section, or one access to a driver's volume    *)
(* map made without the mutex.                                             *)
(***************************************************************************)
VolumeOps(d) ==
    IF d = "vfs"
    THEN {"CreateVolume", "DeleteVolume", "MountVolume", "UmountVolume",
          "CreateSnapshot", "DeleteSnapshot"}
    ELSE {"CreateVolume", "DeleteVolume", "MountVolume", "UmountVolume"}

\* where a call starts: every vfs operation and the nfs MountVolume start
\* with d.mutex.Lock(); the ceph MountVolume, UmountVolume and DeleteVolume
\* start with a read of d.volumes or of the mapped images; CreateVolume of
\* nfs and ceph and DeleteVolume and UmountVolume of nfs do nothing
Entry(d, op) ==
    IF d = "vfs" THEN "lock"
    ELSE IF d = "nfs" THEN (IF op = "MountVolume" THEN "lock" ELSE "return")
    ELSE CASE op = "CreateVolume" -> "return"
           [] op = "DeleteVolume" -> "current"
           [] op = "MountVolume" -> "check"
           [] op = "UmountVolume" -> "lookup"

DrvStep(c, at, pointer, out) ==
    [drv EXCEPT !.proc[c].pc = at, !.proc[c].volume = pointer, !.out[c] = out]

DrvCall(c, d, op) ==
    /\ ~drv.fatal
    /\ drv.proc[c].pc = "idle"
    /\ drv' = [drv EXCEPT !.proc[c] = [driver |-> d, op |-> op, pc |-> Entry(d, op),
                                        volume |-> "nil"],
                           !.out[c] = Empty]
    /\ UNCHANGED <<handlerVars, backups, indexVars, vfsVars, ConvoyDrivers, reply,
                   flock, parsed, laterVars>>

\* d.mutex.Lock()
DrvLock(c) ==
    LET d == drv.proc[c].driver IN
    /\ ~drv.fatal
    /\ drv.proc[c].pc \in {"lock", "createLock"}
    /\ drv.mutex[d] = 0
    /\ drv' = [drv EXCEPT !.mutex[d] = c,
                           !.proc[c].pc = IF @ = "lock" THEN "body" ELSE "create"]
    /\ UNCHANGED <<handlerVars, backups, indexVars, vfsVars, ConvoyDrivers, reply,
                   flock, parsed, laterVars>>

\* what an operation that runs under d.mutex does to the volume and returns
UnderLock(d, op, v) ==
    IF d = "nfs"
    THEN [v |-> [exists |-> TRUE, mounted |-> TRUE], out |-> Empty]
    ELSE CASE op = "CreateVolume" ->
                IF v.exists THEN [v |-> v, out |-> "already exists"]
                ELSE [v |-> [exists |-> TRUE, mounted |-> FALSE], out |-> Empty]
           [] op = "DeleteVolume" ->
                IF ~v.exists THEN [v |-> v, out |-> "no such volume"]
                ELSE IF v.mounted THEN [v |-> v, out |-> "still mounted"]
                ELSE [v |-> [exists |-> FALSE, mounted |-> FALSE], out |-> Empty]
           [] op = "MountVolume" ->
                IF ~v.exists THEN [v |-> v, out |-> "no such volume"]
                ELSE [v |-> [v EXCEPT !.mounted = TRUE], out |-> Empty]
           [] op = "UmountVolume" ->
                IF ~v.exists THEN [v |-> v, out |-> "no such volume"]
                ELSE [v |-> [v EXCEPT !.mounted = FALSE], out |-> Empty]
           [] OTHER ->
                IF ~v.exists THEN [v |-> v, out |-> "no such volume"]
                ELSE [v |-> v, out |-> Empty]

\* the critical section and the deferred d.mutex.Unlock()
DrvBody(c) ==
    LET d == drv.proc[c].driver
        done == UnderLock(d, drv.proc[c].op, drv.volumes[d])
    IN
    /\ ~drv.fatal
    /\ drv.proc[c].pc = "body"
    /\ drv' = [drv EXCEPT !.mutex[d] = 0, !.volumes[d] = done.v,
                           !.proc[c].pc = "return", !.out[c] = done.out]
    /\ UNCHANGED <<handlerVars, backups, indexVars, vfsVars, ConvoyDrivers, reply,
                   flock, parsed, laterVars>>

\* ceph MountVolume: if _, exists := d.volumes[req.Name]; !exists
CephCheck(c) ==
    /\ ~drv.fatal
    /\ drv.proc[c].pc = "check"
    /\ drv' = DrvStep(c, IF drv.volumes["ceph"].exists THEN "read" ELSE "createLock",
                       "nil", Empty)
    /\ UNCHANGED <<handlerVars, backups, indexVars, vfsVars, ConvoyDrivers, reply,
                   flock, parsed, laterVars>>

\* ceph createVolume under d.mutex: the volume is put into d.volumes unless
\* it is there
CephCreate(c) ==
    /\ ~drv.fatal
    /\ drv.proc[c].pc = "create"
    /\ drv' = [drv EXCEPT !.mutex["ceph"] = 0, !.volumes["ceph"].exists = TRUE,
                           !.proc[c].pc = "read"]
    /\ UNCHANGED <<handlerVars, backups, indexVars, vfsVars, ConvoyDrivers, reply,
                   flock, parsed, laterVars>>

\* ceph MountVolume: volume := d.volumes[req.Name], nil if the name is not
\* in the map, and volume.Map on nil panics
CephRead(c) ==
    /\ ~drv.fatal
    /\ drv.proc[c].pc = "read"
    /\ drv' = IF drv.volumes["ceph"].exists
              THEN DrvStep(c, "map", "volume", Empty)
              ELSE DrvStep(c, "return", "nil", "panic: nil pointer dereference")
    /\ UNCHANGED <<handlerVars, backups, indexVars, vfsVars, ConvoyDrivers, reply,
                   flock, parsed, laterVars>>

\* ceph MountVolume: volume.Map, the file-system checks and util.VolumeMount
\* on the volume read from the map; the image is unmapped again on an error
CephMap(c) ==
    /\ ~drv.fatal
    /\ drv.proc[c].pc = "map"
    /\ \E ok \in BOOLEAN :
          drv' = IF ok
                 THEN [DrvStep(c, "return", "nil", Empty)
                           EXCEPT !.volumes["ceph"].mounted = TRUE]
                 ELSE DrvStep(c, "return", "nil", "mount error")
    /\ UNCHANGED <<handlerVars, backups, indexVars, vfsVars, ConvoyDrivers, reply,
                   flock, parsed, laterVars>>

\* ceph DeleteVolume: getCurrentVolumes and the test whether the image is
\* mapped
CephCurrent(c) ==
    /\ ~drv.fatal
    /\ drv.proc[c].pc = "current"
    /\ \E ok \in BOOLEAN :
          drv' = IF ~ok THEN DrvStep(c, "return", "nil", "rbd error")
                 ELSE IF drv.volumes["ceph"].mounted
                 THEN DrvStep(c, "return", "nil", Empty)
                 ELSE DrvStep(c, "delete", "nil", Empty)
    /\ UNCHANGED <<handlerVars, backups, indexVars, vfsVars, ConvoyDrivers, reply,
                   flock, parsed, laterVars>>

\* ceph DeleteVolume: delete(d.volumes, req.Name) if the name is in the map
CephDelete(c) ==
    /\ ~drv.fatal
    /\ drv.proc[c].pc = "delete"
    /\ drv' = [DrvStep(c, "return", "nil", Empty)
                   EXCEPT !.volumes["ceph"].exists = FALSE]
    /\ UNCHANGED <<handlerVars, backups, indexVars, vfsVars, ConvoyDrivers, reply,
                   flock, parsed, laterVars>>

\* ceph UmountVolume: volume, exists := d.volumes[req.Name]
CephLookup(c) ==
    /\ ~drv.fatal
    /\ drv.proc[c].pc = "lookup"
    /\ drv' = IF drv.volumes["ceph"].exists
              THEN DrvStep(c, "unmap", "volume", Empty)
              ELSE DrvStep(c, "return", "nil", "does not exist in internal state")
    /\ UNCHANGED <<handlerVars, backups, indexVars, vfsVars, ConvoyDrivers, reply,
                   flock, parsed, laterVars>>

\* ceph UmountVolume: util.VolumeUmount and volume.Unmap
CephUnmap(c) ==
    /\ ~drv.fatal
    /\ drv.proc[c].pc = "unmap"
    /\ \E ok \in BOOLEAN :
          drv' = IF ok
                 THEN [DrvStep(c, "return", "nil", Empty)
                           EXCEPT !.volumes["ceph"].mounted = FALSE]
                 ELSE DrvStep(c, "return", "nil", "umount error")
    /\ UNCHANGED <<handlerVars, backups, indexVars, vfsVars, ConvoyDrivers, reply,
                   flock, parsed, laterVars>>

DrvReturn(c) ==
    /\ ~drv.fatal
    /\ drv.proc[c].pc = "return"
    /\ drv' = [drv EXCEPT !.proc[c] = Idle]
    /\ UNCHANGED <<handlerVars, backups, indexVars, vfsVars, ConvoyDrivers, reply,
                   flock, parsed, laterVars>>

\* the caller's next step reads or writes its driver's volume map or the
\* volume's record
Accessing(c) ==
    drv.proc[c].pc \in {"body", "check", "create", "read", "delete", "lookup"}

\* the caller's next step writes its driver's volume map
Writing(c) ==
    \/ drv.proc[c].pc = "delete" /\ drv.volumes["ceph"].exists
    \/ drv.proc[c].pc = "create" /\ ~drv.volumes["ceph"].exists

\* two accesses to one Go map without synchronisation, one of them a write,
\* are a data race; the runtime may stop the process with "fatal error:
\* concurrent map read and map write"
DataRace ==
    /\ ~drv.fatal
    /\ \E c1, c2 \in Callers :
          /\ c1 # c2
          /\ drv.proc[c1].driver = "ceph" /\ drv.proc[c2].driver = "ceph"
          /\ Writing(c1) /\ Accessing(c2)
    /\ drv' = [drv EXCEPT !.fatal = TRUE]
    /\ UNCHANGED <<handlerVars, backups, indexVars, vfsVars, ConvoyDrivers, reply,
                   flock, parsed, laterVars>>

DrvNext ==
    \/ \E c \in Callers, d \in VolumeDrivers : \E op \in VolumeOps(d) : DrvCall(c, d, op)
    \/ \E c \in Callers : DrvLock(c)
    \/ \E c \in Callers : DrvBody(c)
    \/ \E c \in Callers : CephCheck(c)
    \/ \E c \in Callers : CephCreate(c)
    \/ \E c \in Callers : CephRead(c)
    \/ \E c \in Callers : CephMap(c)
    \/ \E c \in Callers : CephCurrent(c)
    \/ \E c \in Callers : CephDelete(c)
    \/ \E c \in Callers : CephLookup(c)
    \/ \E c \in Callers : CephUnmap(c)
    \/ \E c \in Callers : DrvReturn(c)
    \/ DataRace

DrvSpec == Init /\ [][DrvNext]_vars

(***************************************************************************)
(* The answer of backup create.  The backup URL is a string of characters; *)
(* the bare answer is the URL after strings.Replace, the verbose answer is *)
(* the JSON encoding of the BackupURLResponse.                             *)
(***************************************************************************)
MaxURLLen == 4

URLChars == {"a", "=", "&"}

RECURSIVE Strings(_, _)
\* the strings over chars of length n
Strings(chars, n) ==
    IF n = 0 THEN {<<>>}
    ELSE {<<c>> \o t : c \in chars, t \in Strings(chars, n - 1)}

URLStrings == UNION {Strings(URLChars, n) : n \in 0..MaxURLLen}

Ampersand == <<"&">>

\* the Go string "\\u0026"
EscapedAmpersand == <<"\\", "u", "0", "0", "2", "6">>

RECURSIVE Replace(_, _, _, _)
\* strings.Replace(s, old, new, n) for a non-empty old: the first n
\* occurrences of old in s are replaced by new, all of them if n < 0
Replace(s, old, new, n) ==
    IF n = 0 \/ Len(s) < Len(old) THEN s
    ELSE IF SubSeq(s, 1, Len(old)) = old
    THEN new \o Replace(SubSeq(s, Len(old) + 1, Len(s)), old, new,
                        IF n < 0 THEN n ELSE n - 1)
    ELSE <<Head(s)>> \o Replace(Tail(s), old, new, n)

\* encoding/json writes every & of a string as \u0026
ToJSON(backupURL) ==
    <<"{">> \o Replace(backupURL, Ampersand, EscapedAmpersand, -1) \o <<"}">>

\* the end of doBackupCreate: sendResponse of the BackupURLResponse for a
\* verbose request, writeStringResponse of the escaped URL otherwise
Respond(backupURL, verbose) ==
    /\ reply' = [url |-> backupURL, verbose |-> verbose,
                 body |-> IF verbose THEN ToJSON(backupURL)
                          ELSE Replace(backupURL, Ampersand, EscapedAmpersand, 1)]
    /\ UNCHANGED <<handlerVars, backups, indexVars, vfsVars, ConvoyDrivers, drv,
                   flock, parsed, laterVars>>

ReplyNext == \E backupURL \in URLStrings, verbose \in BOOLEAN : Respond(backupURL, verbose)

ReplySpec == Init /\ [][ReplyNext]_vars

(***************************************************************************)
(* util.LockFile and util.UnlockFile: a non-blocking exclusive lock on a   *)
(* file, the open file being the handle.                                   *)
(***************************************************************************)
\* LockFile that hands out a second handle
LockFileResult_Shared(path) == [handle |-> path, err |-> Empty]

\* what LockFile(path) returns: the handle, or no handle and the error
LockFileResult(path) ==
    IF path \in flock.held
    THEN [handle |-> Empty, err |-> "resource temporarily unavailable"]
    ELSE [handle |-> path, err |-> Empty]

LockFile(path) ==
    LET ret == LockFileResult(path) IN
    /\ path \in flock.held => flock.refused[path] < MaxRetries
    /\ flock' = [held |-> IF ret.err = Empty THEN flock.held \cup {path}
                          ELSE flock.held,
                 refused |-> [flock.refused EXCEPT
                                ![path] = IF ret.err = Empty THEN 0 ELSE @ + 1],
                 last |-> [op |-> "LockFile", path |-> path, handle |-> ret.handle,
                           err |-> ret.err, held |-> path \in flock.held]]
    /\ UNCHANGED <<handlerVars, backups, indexVars, vfsVars, ConvoyDrivers, reply,
                   drv, parsed, laterVars>>

\* UnlockFile(f) of the handle a LockFile returned
UnlockFile(f) ==
    /\ f \in flock.held
    /\ flock' = [held |-> flock.held \ {f},
                 refused |-> [flock.refused EXCEPT ![f] = 0],
                 last |-> [op |-> "UnlockFile", path |-> f, handle |-> f,
                           err |-> Empty, held |-> TRUE]]
    /\ UNCHANGED <<handlerVars, backups, indexVars, vfsVars, ConvoyDrivers, reply,
                   drv, parsed, laterVars>>

FlockNext ==
    \/ \E path \in LockPaths : LockFile(path)
    \/ \E f \in LockPaths : UnlockFile(f)

FlockSpec == Init /\ [][FlockNext]_vars

(***************************************************************************)
(* util.ParseSize on strings of digits, dots and unit letters.             *)
(***************************************************************************)
MaxSizeLen == 3

\* the largest size that is parsed
MaxSize == 1073741824

Digits == {"0", "1", "2"}

Units == {"k", "m", "g"}

SizeChars == Digits \cup {"."} \cup Units \cup {"K", "M", "G"}

SizeStrings == UNION {Strings(SizeChars, n) : n \in 0..MaxSizeLen}

\* strings.ToLower
ToLower(str) ==
    [i \in 1..Len(str) |->
        CASE str[i] = "K" -> "k" [] str[i] = "M" -> "m" [] str[i] = "G" -> "g"
          [] OTHER -> str[i]]

DigitValue(c) == CASE c = "0" -> 0 [] c = "1" -> 1 [] c = "2" -> 2 [] OTHER -> 0

RECURSIVE ParseDigits(_)
ParseDigits(str) ==
    IF str = <<>> THEN 0
    ELSE 10 * ParseDigits(SubSeq(str, 1, Len(str) - 1)) + DigitValue(str[Len(str)])

\* strconv.ParseInt(str, 10, 64): the value, or 0 and a syntax error
ParseInt(str) ==
    IF str # <<>> /\ \A i \in 1..Len(str) : str[i] \in Digits
    THEN [value |-> ParseDigits(str), err |-> Empty]
    ELSE [value |-> 0, err |-> "invalid syntax"]

\* the regular expression ^[0-9.]+[kmg]$
ReadableSize(str) ==
    /\ Len(str) >= 2
    /\ str[Len(str)] \in Units
    /\ \A i \in 1..(Len(str) - 1) : str[i] \in Digits \cup {"."}

UnitBytes(unit) ==
    CASE unit = "k" -> 1024 [] unit = "m" -> 1024 * 1024 [] unit = "g" -> 1024 * 1024 * 1024

\* ParseSize without strings.ToLower
ParseSize_CaseSensitive(size) ==
    IF size = <<>> THEN [value |-> 0, err |-> Empty]
    ELSE IF ~ReadableSize(size) THEN ParseInt(size)
    ELSE LET number == ParseInt(SubSeq(size, 1, Len(size) - 1)) IN
         IF number.err # Empty THEN [value |-> 0, err |-> number.err]
         ELSE [value |-> number.value * UnitBytes(size[Len(size)]), err |-> Empty]

\* util.ParseSize(size)
ParseSize(size) ==
    LET lower == ToLower(size) IN
    IF size = <<>> THEN [value |-> 0, err |-> Empty]
    ELSE IF ~ReadableSize(lower) THEN ParseInt(lower)
    ELSE LET number == ParseInt(SubSeq(lower, 1, Len(lower) - 1)) IN
         IF number.err # Empty THEN [value |-> 0, err |-> number.err]
         ELSE [value |-> number.value * UnitBytes(lower[Len(lower)]), err |-> Empty]

\* the size is at most MaxSize
Sized(size) ==
    LET lower == ToLower(size)
        number == ParseInt(SubSeq(lower, 1, Len(lower) - 1))
    IN ReadableSize(lower) /\ number.err = Empty =>
          number.value <= MaxSize \div UnitBytes(lower[Len(lower)])

\* a size that has not been parsed yet
Pending == "pending"

\* the sizes given to ParseSize
ParseInit ==
    /\ volumes = [v \in Volumes |-> EmptyIndex]
    /\ durable = [v \in Volumes |-> EmptyIndex]
    /\ UUIDIndex = Volumes
    /\ SnapshotVolumeIndex = EmptyIndex
    /\ NameUUIDIndex = EmptyIndex
    /\ driverSnapshots = EmptyIndex
    /\ backups = {}
    /\ minted = 0
    /\ served = 0
    /\ GlobalLock = [writer |-> None, readers |-> {}]
    /\ pc = [r \in Requests |-> "idle"]
    /\ req = [r \in Requests |-> NoRequest]
    /\ local = [r \in Requests |-> NoLocal]
    /\ result = [r \in Requests |-> Empty]
    /\ index = EmptyIndex
    /\ lastOp = NoLastOp
    /\ vfs = NoVfs
    /\ ConvoyDrivers = LoadedDrivers
    /\ reply = NoReply
    /\ drv = NoDrv
    /\ flock = NoFlock
    /\ vfsMutex = NoLocking
    /\ nfsd = NoNfs
    /\ cephd = NoCeph
    /\ retryer = NoRetry
    /\ \E size \in SizeStrings :
          /\ Sized(size)
          /\ parsed = [size |-> size, value |-> 0, err |-> Pending]

ParseSizeCall ==
    /\ parsed.err = Pending
    /\ parsed' = [size |-> parsed.size, value |-> ParseSize(parsed.size).value,
                  err |-> ParseSize(parsed.size).err]
    /\ UNCHANGED <<handlerVars, backups, indexVars, vfsVars, ConvoyDrivers, reply,
                   drv, flock, laterVars>>

ParseNext == ParseSizeCall

ParseSpec == ParseInit /\ [][ParseNext]_vars

(***************************************************************************)
(* The daemon started with one of several sets of drivers, on a            *)
(* destination that may hold a backup already, serving snapshot creates    *)
(* and backup list, inspect and delete requests whose URLs carry any       *)
(* scheme.                                                                 *)
(***************************************************************************)
\* the sets of drivers the daemon is started with
DriverSets == {{"vfs", "devicemapper", "ceph", "nfs"}, {"vfs", "ceph"}, {"ceph", "nfs"}}

\* the one backup the destination can hold and the drivers its volume
\* metadata can record
DispatchStores ==
    {{}} \cup {{[volume |-> "v1", snapshot |-> UUIDPool[1], driver |-> d]} :
                  d \in {"vfs", "devicemapper", "ceph", "longhorn"}}

\* the URLs of backup inspect and delete requests
DispatchSchemes == {"vfs", "s3", "devicemapper", "ceph", "ftp", BadScheme}

DispatchURLs == {[scheme |-> sch, volume |-> "v1", snapshot |-> UUIDPool[1]] :
                    sch \in DispatchSchemes}

DispatchInit ==
    /\ volumes = [v \in Volumes |-> EmptyIndex]
    /\ durable = [v \in Volumes |-> EmptyIndex]
    /\ UUIDIndex = Volumes
    /\ SnapshotVolumeIndex = EmptyIndex
    /\ NameUUIDIndex = EmptyIndex
    /\ driverSnapshots = EmptyIndex
    /\ backups \in DispatchStores
    /\ minted = 0
    /\ served = 0
    /\ GlobalLock = [writer |-> None, readers |-> {}]
    /\ pc = [r \in Requests |-> "idle"]
    /\ req = [r \in Requests |-> NoRequest]
    /\ local = [r \in Requests |-> NoLocal]
    /\ result = [r \in Requests |-> Empty]
    /\ index = EmptyIndex
    /\ lastOp = NoLastOp
    /\ vfs = NoVfs
    /\ ConvoyDrivers \in DriverSets
    /\ reply = NoReply
    /\ drv = NoDrv
    /\ flock = NoFlock
    /\ vfsMutex = NoLocking
    /\ nfsd = NoNfs
    /\ cephd = NoCeph
    /\ retryer = NoRetry
    /\ parsed = NoParsed

\* the volumes of the loaded drivers
LoadedVolumes == {v \in Volumes : DriverOf(v) \in ConvoyDrivers}

DispatchNext ==
    \E r \in Requests :
        \/ \E v \in LoadedVolumes, n \in Names \cup {Empty} : ScEnter(r, v, n)
        \/ ScDriver(r)
        \/ ScMap(r)
        \/ ScUUID(r)
        \/ ScOwner(r)
        \/ ScName(r)
        \/ ScSave(r)
        \/ doBackupList(r)
        \/ \E u \in DispatchURLs : doBackupInspect(r, u)
        \/ \E u \in DispatchURLs : doBackupDelete(r, u)
        \/ Return(r)

DispatchSpec == DispatchInit /\ [][DispatchNext]_vars

(***************************************************************************)
(* Snapshot delete and backup create on metadata in which the              *)
(* Snapshot-Volume index and the snapshot maps may disagree: the index     *)
(* maps the first snapshot to an owner that holds it, to a volume whose    *)
(* snapshot map lacks it, or to a volume that does not exist.              *)
(***************************************************************************)
DesyncOwners == {"v1", "v2", AbsentVolume}

DesyncInit ==
    \E owner \in DesyncOwners, held \in BOOLEAN :
        /\ held => owner \in Volumes
        /\ volumes = [v \in Volumes |->
                         IF held /\ v = owner
                         THEN Put(EmptyIndex, UUIDPool[1],
                                  [UUID |-> UUIDPool[1], VolumeUUID |-> v])
                         ELSE EmptyIndex]
        /\ durable = volumes
        /\ UUIDIndex = Volumes \cup {UUIDPool[1]}
        /\ SnapshotVolumeIndex = Put(EmptyIndex, UUIDPool[1], owner)
        /\ NameUUIDIndex = EmptyIndex
        /\ driverSnapshots = Put(EmptyIndex, UUIDPool[1],
                                 [volume |-> owner, name |-> Empty])
        /\ backups = {}
        /\ minted = 1
        /\ served = 0
        /\ GlobalLock = [writer |-> None, readers |-> {}]
        /\ pc = [r \in Requests |-> "idle"]
        /\ req = [r \in Requests |-> NoRequest]
        /\ local = [r \in Requests |-> NoLocal]
        /\ result = [r \in Requests |-> Empty]
        /\ index = EmptyIndex
        /\ lastOp = NoLastOp
        /\ vfs = NoVfs
        /\ OtherInit

DesyncNext ==
    \E r \in Requests :
        \/ \E s \in SnapshotArgs : SdEnter(r, s)
        \/ SdDriver(r)
        \/ SdUUID(r)
        \/ SdOwner(r)
        \/ SdName(r)
        \/ SdMap(r)
        \/ SdSave(r)
        \/ \E s \in SnapUUIDs : BcResolve(r, s)
        \/ BcExists(r)
        \/ BcInfo(r)
        \/ BcStart(r)
        \/ BcUpload(r)
        \/ Return(r)

DesyncSpec == DesyncInit /\ [][DesyncNext]_vars

(***************************************************************************)
(* Properties                                                              *)
(***************************************************************************)
Mutating == {"SnapshotCreate", "SnapshotDelete", "BackupDelete"}

ReadOnly == {"SnapshotInspect", "BackupList", "BackupInspect"}

\* the requests that are inside a handler of one of the given kinds
Inside(ops) == {r \in Requests : pc[r] # "idle" /\ req[r].op \in ops}

\* the volumes whose snapshot map holds u
Owners(u) == {v \in Volumes : u \in DOMAIN volumes[v]}

LiveSnapshots == UNION {DOMAIN volumes[v] : v \in Volumes}

\* C1: whenever no request holds the global writer lock, a snapshot UUID is
\* a key of the Snapshot-Volume index iff it is in the snapshot map of
\* exactly one volume, the one the index maps it to.
OwnershipSymmetry ==
    GlobalLock.writer = None =>
        \A u \in SnapUUIDs \cup Volumes \cup {BadUUID} :
            /\ u \in DOMAIN SnapshotVolumeIndex =>
                  Owners(u) = {SnapshotVolumeIndex[u]}
            /\ Owners(u) # {} => u \in DOMAIN SnapshotVolumeIndex

\* an owned snapshot seen between requests, after a create or delete on its
\* volume has returned a save error
OwnershipSymmetryWitness ==
    /\ GlobalLock.writer = None
    /\ \E u \in DOMAIN SnapshotVolumeIndex :
          /\ durable[SnapshotVolumeIndex[u]] # volumes[SnapshotVolumeIndex[u]]
          /\ Owners(u) = {SnapshotVolumeIndex[u]}

\* C3: a snapshot create, snapshot delete or backup delete holds the writer
\* lock and a snapshot inspect, backup list or backup inspect holds the
\* reader lock for as long as it is inside its handler; so no two mutating
\* requests, and no mutating and read-only request, are inside together.
GlobalLockExclusion ==
    /\ \A r \in Inside(Mutating) : GlobalLock.writer = r
    /\ \A r \in Inside(ReadOnly) : r \in GlobalLock.readers
    /\ Cardinality(Inside(Mutating)) <= 1
    /\ Inside(Mutating) # {} => Inside(ReadOnly) = {}

\* two read-only requests inside their handlers at the same time
GlobalLockExclusionWitness ==
    \E r, q \in Inside(ReadOnly) : r # q /\ {r, q} \subseteq GlobalLock.readers

\* C5: between requests no snapshot UUID is in two volumes' snapshot maps or
\* is a volume's UUID, every live snapshot's UUID is in the UUID index, and
\* the UUID a snapshot create has just minted is not in the UUID index
\* before the create registers it.
UUIDUniqueness ==
    /\ GlobalLock.writer = None =>
          \A u \in LiveSnapshots :
              /\ Cardinality(Owners(u)) = 1
              /\ u \notin Volumes
              /\ u \in UUIDIndex
              /\ volumes[CHOOSE v \in Owners(u) : TRUE][u].UUID = u
    /\ \A r \in Requests :
          pc[r] \in {"sc_map", "sc_uuid"} => local[r].uuid \notin UUIDIndex

\* two live snapshots between requests
UUIDUniquenessWitness ==
    /\ GlobalLock.writer = None
    /\ Cardinality(LiveSnapshots) >= 2

\* the name a live snapshot was created with
SnapshotName(u) == IF u \in DOMAIN driverSnapshots THEN driverSnapshots[u].name ELSE Empty

PastCheck == {"sc_driver", "sc_map", "sc_uuid", "sc_owner", "sc_name", "sc_save"}

\* C6: no two live snapshots carry the same name, a live snapshot's name is
\* bound to no other UUID, and a snapshot create whose name was bound when
\* it started never reaches the driver call and returns the conflict error
\* (the volume UUID's format is checked before the name is looked up, so a
\* request that is malformed as well returns the format error).
NameUniqueness ==
    /\ \A u1, u2 \in LiveSnapshots :
          SnapshotName(u1) # Empty /\ SnapshotName(u1) = SnapshotName(u2) => u1 = u2
    /\ \A u \in LiveSnapshots :
          SnapshotName(u) # Empty /\ SnapshotName(u) \in DOMAIN NameUUIDIndex =>
              NameUUIDIndex[SnapshotName(u)] = u
    /\ \A r \in Inside({"SnapshotCreate"}) :
          req[r].name \in DOMAIN local[r].pre.NameUUIDIndex =>
              /\ pc[r] \notin PastCheck
              /\ driverSnapshots = local[r].preDriver
              /\ pc[r] = "ret" =>
                    result[r] = IF CheckUUID(req[r].volume)
                                THEN "name already associated" ELSE "invalid UUID"

\* a snapshot create refused because its name is already bound
NameUniquenessWitness ==
    \E r \in Requests :
        /\ pc[r] = "ret"
        /\ req[r].op = "SnapshotCreate"
        /\ result[r] = "name already associated"
        /\ \E u \in LiveSnapshots : SnapshotName(u) = req[r].name

\* C7: a snapshot create or delete that returns the error of the driver's
\* CreateSnapshot or DeleteSnapshot leaves the snapshot maps and the three
\* indices as they were when the request started.
DriverFailureAtomic ==
    \A r \in Inside({"SnapshotCreate", "SnapshotDelete"}) :
        pc[r] = "ret" /\ result[r] = "driver error" => Metadata = local[r].pre

\* a snapshot delete of a live snapshot whose driver call failed
DriverFailureAtomicWitness ==
    \E r \in Requests :
        /\ pc[r] = "ret"
        /\ req[r].op = "SnapshotDelete"
        /\ result[r] = "driver error"
        /\ req[r].snapshot \in LiveSnapshots

\* C8: a backup create whose upload is in progress does not hold the global
\* writer lock.
UploadOutsideWriterLock ==
    \A r \in Requests : pc[r] = "bc_upload" => GlobalLock.writer # r

\* a snapshot create or delete that took the writer lock while an upload was
\* in progress and has run to completion with the upload still in progress
UploadOutsideWriterLockWitness ==
    \E r, q \in Requests :
        /\ pc[r] = "bc_upload"
        /\ pc[q] = "ret"
        /\ req[q].op \in {"SnapshotCreate", "SnapshotDelete"}
        /\ local[q].duringUpload
        /\ result[q] = "ok"

\* C9: while a backup create of S is uploading, a snapshot delete of S is
\* not held back by it: unless some other request holds the global lock
\* (or the run's request budget is spent) the delete can enter its handler.
DeleteNotHeldBackByUpload ==
    \A r, q \in Requests :
        /\ pc[r] = "bc_upload"
        /\ pc[q] = "idle"
        /\ served < MaxRequests
        /\ GlobalLock.writer \in {None, r}
        /\ GlobalLock.readers \subseteq {r}
        => ENABLED SdEnter(q, req[r].snapshot)

\* the backup of S is uploading and S is gone from the indices, the snapshot
\* map and the driver
KnownRaceReached ==
    \E r \in Requests :
        /\ pc[r] = "bc_upload"
        /\ req[r].snapshot \notin UUIDIndex
        /\ req[r].snapshot \notin DOMAIN SnapshotVolumeIndex
        /\ req[r].snapshot \notin LiveSnapshots
        /\ req[r].snapshot \notin DOMAIN driverSnapshots

\* handler r takes a step that reads the ownership index or a snapshot map
ReadsMetadata(r) ==
    \/ pc[r] = "idle" /\ req'[r].op \in {"BackupCreate", "SnapshotInspect"}
    \/ pc[r] = "bc_exists" /\ pc'[r] # "bc_exists"

\* C4: no request reads an index or a snapshot map while a snapshot create
\* or delete has applied some but not all of its updates.
NoTornReads ==
    [][\A r \in Requests : ReadsMetadata(r) => ~SomeMidUpdate]_vars

\* a snapshot create or delete that returns success has saved the volume
\* record it changed
SavedBeforeUnlock ==
    /\ \A r \in Inside({"SnapshotCreate"}) :
          pc[r] = "ret" /\ result[r] = "ok" =>
              durable[req[r].volume] = volumes[req[r].volume]
    /\ \A r \in Inside({"SnapshotDelete"}) :
          pc[r] = "ret" /\ result[r] = "ok" =>
              durable[local[r].volumeUUID] = volumes[local[r].volumeUUID]

\* C10: a snapshot create or delete that succeeds has saved the volume
\* record it changed before it releases the writer lock, and no request
\* reads the in-memory state while a change to it is not yet saved.
PersistBeforeUnlock ==
    [][/\ SavedBeforeUnlock'
       /\ \A r \in Requests : ReadsMetadata(r) => ~SomeUnsaved]_vars

\* the errors of a lookup that found nothing
NotFound == {"cannot find volume for snapshot", "cannot find volume",
             "cannot find snapshot", "backup not found"}

\* C11: when a snapshot delete returns success, the snapshot is in no
\* volume's snapshot map, the Snapshot-Volume index returns empty for it,
\* it is not in the UUID index, and a snapshot inspect of it returns a
\* not-found error.
SnapshotDeleteComplete ==
    \A r \in Inside({"SnapshotDelete"}) :
        pc[r] = "ret" /\ result[r] = "ok" =>
            /\ SnapshotInspectResult(req[r].snapshot) \in NotFound
            /\ req[r].snapshot \notin DOMAIN volumes[local[r].volumeUUID]
            /\ req[r].snapshot \notin LiveSnapshots
            /\ IndexGet(SnapshotVolumeIndex, req[r].snapshot) = Empty
            /\ req[r].snapshot \notin UUIDIndex

\* a successful delete of a snapshot that vfs volume v1 owned when the
\* delete started
SnapshotDeleteCompleteWitness ==
    \E r \in Requests :
        /\ pc[r] = "ret"
        /\ req[r].op = "SnapshotDelete"
        /\ result[r] = "ok"
        /\ IndexGet(local[r].pre.SnapshotVolumeIndex, req[r].snapshot) = "v1"
        /\ req[r].snapshot \in local[r].pre.UUIDIndex

\* C2: an Add of a non-empty value to a key bound to a different value
\* returns the conflict error, an Add of any different value returns an
\* error, and either way the index keeps the original binding.
IndexUniqueness ==
    lastOp.op = "Add" /\ lastOp.key \in DOMAIN lastOp.before
                      /\ lastOp.before[lastOp.key] # lastOp.value =>
        /\ index = lastOp.before
        /\ lastOp.out # Empty
        /\ lastOp.value # Empty => lastOp.out = "BUG: Conflict when updating index"

\* an Add of a second, non-empty value to a bound key
IndexUniquenessWitness ==
    /\ lastOp.op = "Add"
    /\ lastOp.key \in DOMAIN lastOp.before
    /\ lastOp.value # Empty
    /\ lastOp.before[lastOp.key] # lastOp.value

\* the call made n calls before the last one was op on the last call's key
\* and succeeded
Before(n, op) ==
    /\ Len(lastOp.earlier) >= n
    /\ lastOp.earlier[n].op = op
    /\ lastOp.earlier[n].key = lastOp.key
    /\ lastOp.earlier[n].out = Empty

\* C12: an Add of the value a key is already bound to succeeds and leaves
\* the index as it was, the key bound once and to that value; a Delete of a
\* bound key, also right after such a re-add, succeeds and leaves the key
\* unbound.
IndexIdempotence ==
    /\ lastOp.op = "Add" /\ lastOp.key \in DOMAIN lastOp.before
                         /\ lastOp.before[lastOp.key] = lastOp.value =>
          /\ lastOp.out = Empty
          /\ index = lastOp.before
          /\ IndexGet(index, lastOp.key) = lastOp.value
    /\ lastOp.op = "Delete" /\ lastOp.key \in DOMAIN lastOp.before =>
          /\ lastOp.out = Empty
          /\ lastOp.key \notin DOMAIN index
          /\ IndexGet(index, lastOp.key) = Empty

\* Add(k, v), Add(k, v) again, then Delete(k)
IndexIdempotenceWitness ==
    /\ lastOp.op = "Delete"
    /\ lastOp.out = Empty
    /\ Before(1, "Add")
    /\ Before(2, "Add")
    /\ lastOp.earlier[1].value = lastOp.earlier[2].value

\* the programming-invariant errors of the index
BugErrors == {"BUG: Invalid empty index key", "BUG: Invalid empty index value",
              "BUG: Conflict when updating index",
              "BUG: About to remove non-existed key"}

\* C13: a Delete of the empty key or of a key that is not bound returns a
\* programming-invariant error and leaves every binding as it was.
DeleteRequiresPresence ==
    lastOp.op = "Delete" /\ (lastOp.key = Empty \/ lastOp.key \notin DOMAIN lastOp.before) =>
        /\ lastOp.out \in BugErrors
        /\ index = lastOp.before

\* a Delete of an unbound key on an index that holds another binding
DeleteRequiresPresenceWitness ==
    /\ lastOp.op = "Delete"
    /\ lastOp.key # Empty
    /\ lastOp.key \notin DOMAIN lastOp.before
    /\ DOMAIN lastOp.before # {}

\* C14: an Add with an empty key or an empty value returns an
\* invalid-argument error and leaves the index as it was.
AddRejectsEmpty ==
    lastOp.op = "Add" /\ (lastOp.key = Empty \/ lastOp.value = Empty) =>
        /\ lastOp.out \in {"BUG: Invalid empty index key",
                           "BUG: Invalid empty index value"}
        /\ index = lastOp.before
        /\ Empty \notin DOMAIN index
        /\ \A k \in DOMAIN index : index[k] # Empty

\* an Add of the empty value to a key that is bound
AddRejectsEmptyWitness ==
    /\ lastOp.op = "Add"
    /\ lastOp.value = Empty
    /\ lastOp.key \in DOMAIN lastOp.before

\* C15: Get leaves the index as it was; it returns the value the key is
\* bound to and the empty string for an unbound key: the value of the
\* successful Add made just before, the empty string after a successful
\* Delete.
GetIsPureLookup ==
    lastOp.op = "Get" =>
        /\ index = lastOp.before
        /\ lastOp.key \in DOMAIN lastOp.before => lastOp.out = lastOp.before[lastOp.key]
        /\ lastOp.key \notin DOMAIN lastOp.before => lastOp.out = Empty
        /\ Before(1, "Add") => lastOp.out = lastOp.earlier[1].value
        /\ Before(1, "Delete") => lastOp.out = Empty

\* a Get of a key right after the Add that bound it
GetIsPureLookupWitness ==
    /\ lastOp.op = "Get"
    /\ Before(1, "Add")
    /\ lastOp.out = lastOp.earlier[1].value
    /\ lastOp.out # Empty

\* C16: after a successful Add(k, v) and then a successful Delete(k), a
\* Get(k) returns the empty string, a Delete(k) fails and changes nothing,
\* and an Add(k, v2) of any non-empty v2 succeeds and binds k to v2.
AddDeleteRoundTrip ==
    Before(2, "Add") /\ Before(1, "Delete") =>
        /\ lastOp.op = "Get" => lastOp.out = Empty
        /\ lastOp.op = "Delete" => lastOp.out \in BugErrors /\ index = lastOp.before
        /\ lastOp.op = "Add" /\ lastOp.value # Empty =>
              /\ lastOp.out = Empty
              /\ IndexGet(index, lastOp.key) = lastOp.value

\* Add(k, v), Delete(k), then Add(k, v2) with v2 other than v
AddDeleteRoundTripWitness ==
    /\ Before(2, "Add")
    /\ Before(1, "Delete")
    /\ lastOp.op = "Add"
    /\ lastOp.value \notin {Empty, lastOp.earlier[2].value}
    /\ lastOp.out = Empty

\* C18: when a backup create of snapshot S, which volume V owned when the
\* request resolved it, returns success with URL u, getBackupOpsForBackup(u)
\* yields V's driver and a backup inspect of u succeeds with metadata whose
\* volume UUID is V and whose snapshot UUID is S.
BackupRoundTrip ==
    [][\A r \in Requests :
          pc[r] = "bc_upload" /\ pc'[r] = "ret" /\ result'[r] = "ok" =>
              \E u \in BackupURLs :
                  /\ u = local'[r].backupURL
                  /\ (getBackupOpsForBackup(u))' =
                        [driver |-> DriverOf(local[r].volumeUUID), err |-> Empty]
                  /\ (BackupInspectResult(u))' = "ok"
                  /\ (GetBackupInfo(DriverOf(local[r].volumeUUID), u))'.info.VolumeUUID
                        = local[r].volumeUUID
                  /\ (GetBackupInfo(DriverOf(local[r].volumeUUID), u))'.info.SnapshotUUID
                        = req[r].snapshot]_vars

\* a backup create of a vfs volume's snapshot has returned its URL and a
\* backup inspect of that URL has succeeded
BackupRoundTripWitness ==
    \E r, q \in Requests :
        /\ pc[r] = "ret" /\ req[r].op = "BackupCreate" /\ result[r] = "ok"
        /\ DriverOf(local[r].volumeUUID) = "vfs"
        /\ pc[q] = "ret" /\ req[q].op = "BackupInspect" /\ result[q] = "ok"
        /\ req[q].url = local[r].backupURL

\* C19: a backup delete that returns success leaves no backup at its URL,
\* so that a backup inspect of the URL returns a not-found error, and
\* leaves the snapshot maps, the three indices, the saved volume records
\* and the drivers' snapshots as they were: every snapshot inspect answers
\* as before.
BackupDeleteNeutral ==
    [][\A r \in Requests :
          /\ pc[r] = "idle" /\ pc'[r] = "ret"
          /\ req'[r].op = "BackupDelete" /\ result'[r] = "ok"
          => \E u \in BackupURLs :
                 /\ u = req'[r].url
                 /\ (BackupAt(u))' = {}
                 /\ (BackupInspectResult(u))' \in NotFound
                 /\ Metadata' = Metadata
                 /\ durable' = durable
                 /\ driverSnapshots' = driverSnapshots
                 /\ \A s \in SnapshotArgs :
                        (SnapshotInspectResult(s))' = SnapshotInspectResult(s)]_vars

\* a successful backup delete whose source snapshot is still live and can
\* be inspected
BackupDeleteNeutralWitness ==
    \E r \in Requests :
        /\ pc[r] = "ret" /\ req[r].op = "BackupDelete" /\ result[r] = "ok"
        /\ BackupAt(req[r].url) = {}
        /\ req[r].url.snapshot \in DOMAIN volumes[req[r].url.volume]
        /\ SnapshotInspectResult(req[r].url.snapshot) = "ok"

\* the driver recorded with the backup the last driver call named, when the
\* call started
RecordedDriver ==
    {b.driver : b \in {x \in vfs.last.stored : /\ x.volume = vfs.last.url.volume
                                               /\ x.snapshot = vfs.last.url.snapshot}}

\* C17: a vfs CreateVolume with the URL of a backup that records another
\* driver returns 'Cannot restore backup of X to vfs' and leaves the volume
\* config records, the volume directories, the downloaded blobs and the
\* destination as they were; a CreateVolume of the same id with no backup
\* URL can then succeed, unless the volume existed before.
RestoreRejection ==
    vfs.last.op = "CreateVolume" /\ RecordedDriver # {} /\ RecordedDriver # {"vfs"} =>
        /\ \E d \in RecordedDriver :
              vfs.last.out = "Cannot restore backup of " \o d \o " to vfs"
        /\ VfsVolumes = vfs.last.before
        /\ backups = vfs.last.stored
        /\ vfs.last.id \notin vfs.configs =>
              ENABLED (/\ CreateVolume(vfs.last.id, NoURL, Empty, "false", Empty, "none")
                       /\ vfs'.last.out = Empty
                       /\ vfs.last.id \in vfs'.configs)

\* a restore of another driver's backup refused for a volume id that has
\* no config record
RestoreRejectionWitness ==
    /\ vfs.last.op = "CreateVolume"
    /\ RecordedDriver = {"devicemapper"}
    /\ vfs.last.out = "Cannot restore backup of devicemapper to vfs"
    /\ vfs.last.id \notin vfs.configs

\* C20: a DeleteBackup handled by a driver other than the one the backup's
\* stored volume metadata records returns an error and leaves the backup at
\* the destination.
DeleteBackupDriverCheck ==
    vfs.last.op = "DeleteBackup" /\ RecordedDriver # {} /\ RecordedDriver # {"vfs"} =>
        /\ vfs.last.out # Empty
        /\ backups = vfs.last.stored
        /\ BackupAt(vfs.last.url) # {}

\* the vfs driver asked to delete a backup the devicemapper driver took
DeleteBackupDriverCheckWitness ==
    /\ vfs.last.op = "DeleteBackup"
    /\ RecordedDriver = {"devicemapper"}
    /\ vfs.last.out = "BUG: Wrong driver handling DeleteBackup()"

\* the driver operations a handler can call
DriverOperations == {"CreateSnapshot", "DeleteSnapshot", "GetSnapshotInfo",
                     "GetVolumeInfo", "CreateBackup", "DeleteBackup",
                     "GetBackupInfo", "ListBackup"}

\* the driver names a backup URL leads to: the one its stored volume
\* metadata records if its scheme is an object store's, else its scheme
NamedDrivers(u) ==
    IF u.scheme \in ObjectStoreSchemes THEN {b.driver : b \in BackupAt(u)}
    ELSE {u.scheme}

\* C21: a backup inspect or delete of a URL whose scheme is an object
\* store's is handled by the driver the stored volume metadata records, and
\* fails if the metadata cannot be loaded; of any other URL, by the driver
\* the scheme names; if that name is not a loaded driver the request
\* returns an error, calls no driver operation and leaves the destination
\* as it was.
BackupDriverResolution ==
    [][\A r \in Requests :
          pc[r] = "idle" /\ pc'[r] = "ret"
                         /\ req'[r].op \in {"BackupInspect", "BackupDelete"} =>
              \E u \in DispatchURLs \cup BackupURLs :
                  /\ u = req'[r].url
                  /\ u.scheme \in ObjectStoreSchemes /\ BackupAt(u) = {} =>
                        /\ result'[r] = "backup not found"
                        /\ local'[r].calls = {}
                  /\ \A d \in NamedDrivers(u) :
                        IF d \notin ConvoyDrivers
                        THEN /\ getBackupOpsForBackup(u).err # Empty
                             /\ result'[r] = getBackupOpsForBackup(u).err
                             /\ local'[r].calls = {}
                             /\ backups' = backups
                        ELSE IF BackupOps(d)
                        THEN /\ getBackupOpsForBackup(u) = [driver |-> d, err |-> Empty]
                             /\ local'[r].calls \in {{"GetBackupInfo"}, {"DeleteBackup"}}
                             /\ result'[r] \in {"ok", DeleteBackup(d, u, FALSE).err,
                                                GetBackupInfo(d, u).err}
                        ELSE /\ result'[r] = "not supported"
                             /\ local'[r].calls = {}]_vars

\* a backup inspect through an object-store URL has been handled by the
\* devicemapper driver its metadata records, with the vfs driver loaded too
BackupDriverResolutionWitness ==
    \E r \in Requests :
        /\ pc[r] = "ret" /\ req[r].op = "BackupInspect" /\ result[r] = "ok"
        /\ req[r].url.scheme = "vfs"
        /\ NamedDrivers(req[r].url) = {"devicemapper"}
        /\ "vfs" \in ConvoyDrivers
        /\ local[r].calls = {"GetBackupInfo"}

\* C22: a backup list never fails because a loaded driver has no backup
\* operations: it returns success or the error of a ListBackup call; on
\* success its response is the union of what ListBackup of every loaded
\* driver with backup operations returns, which is empty, with no driver
\* called, when no loaded driver has backup operations.
BackupListFanOut ==
    [][\A r \in Requests :
          pc[r] = "idle" /\ pc'[r] = "ret" /\ req'[r].op = "BackupList" =>
              /\ result'[r] \in {"ok", "driver error"}
              /\ result'[r] = "ok" =>
                    local'[r].listing =
                        {b \in backups : b.driver \in ConvoyDrivers /\ BackupOps(b.driver)}
              /\ (\A d \in ConvoyDrivers : ~BackupOps(d)) =>
                    /\ result'[r] = "ok"
                    /\ local'[r].listing = {}
                    /\ local'[r].calls = {}]_vars

\* a backup list that succeeded with the vfs driver's backup in its
\* response while the ceph driver, which has no backup operations, is loaded
BackupListFanOutWitness ==
    \E r \in Requests :
        /\ pc[r] = "ret" /\ req[r].op = "BackupList" /\ result[r] = "ok"
        /\ "ceph" \in ConvoyDrivers
        /\ \E b \in local[r].listing : b.driver = "vfs"

\* C23: a request that returns the 'not supported' error of a driver's
\* SnapshotOps or BackupOps returns it like any other error, has called no
\* driver operation, and leaves the snapshot maps, the three indices, the
\* drivers' snapshots and the destination as they were.
UnsupportedIsNormalError ==
    [][\A r \in Requests :
          pc[r] # "ret" /\ pc'[r] = "ret" /\ result'[r] = "not supported" =>
              /\ local'[r].calls \cap DriverOperations = {}
              /\ Metadata' = Metadata
              /\ local'[r].pre \in {Metadata, NoMetadata}
              /\ driverSnapshots' = driverSnapshots
              /\ backups' = backups
              /\ durable' = durable]_vars

\* a named snapshot create on the ceph volume has returned 'not supported'
UnsupportedIsNormalErrorWitness ==
    \E r \in Requests :
        /\ pc[r] = "ret" /\ req[r].op = "SnapshotCreate"
        /\ result[r] = "not supported"
        /\ DriverOf(req[r].volume) = "ceph"
        /\ req[r].name # Empty
        /\ ENABLED Return(r)

\* C26: a snapshot create, delete or inspect whose UUID is malformed, and a
\* snapshot create whose name is malformed, returns the format error having
\* read or written no index and called no driver operation, and changes
\* nothing.
ValidationFirst ==
    [][\A r \in Requests :
          pc[r] = "idle" /\ pc'[r] # "idle" =>
              LET q == req'[r]
                  malformedUUID ==
                      \/ q.op = "SnapshotCreate" /\ ~CheckUUID(q.volume)
                      \/ q.op \in {"SnapshotDelete", "SnapshotInspect"}
                            /\ ~CheckUUID(q.snapshot)
                  malformedName ==
                      q.op = "SnapshotCreate" /\ q.name # Empty /\ ~CheckName(q.name)
              IN  malformedUUID \/ malformedName =>
                      /\ pc'[r] = "ret"
                      /\ result'[r] = IF malformedUUID THEN "invalid UUID"
                                      ELSE "invalid name"
                      /\ local'[r].calls = {}
                      /\ Metadata' = Metadata
                      /\ driverSnapshots' = driverSnapshots
                      /\ durable' = durable
                      /\ backups' = backups
                      /\ minted' = minted]_vars

\* a snapshot create with a malformed name, rejected while the name index
\* holds a binding
ValidationFirstWitness ==
    \E r \in Requests :
        /\ pc[r] = "ret" /\ req[r].op = "SnapshotCreate"
        /\ CheckUUID(req[r].volume) /\ req[r].name = BadName
        /\ result[r] = "invalid name"
        /\ local[r].calls = {}
        /\ DOMAIN NameUUIDIndex # {}

\* the errors of a snapshot create that met a binding it cannot replace
ConflictErrors == {"name already associated", "BUG: Conflict when updating index",
                   "BUG: UUID already exists"}

WasMounted ==
    /\ vfs.last.id \in vfs.last.before.configs
    /\ vfs.last.before.volume[vfs.last.id].MountPoint # Empty

\* C28: a vfs DeleteVolume of a mounted volume returns an error and leaves
\* the volume's directory and config record (and everything else the driver
\* holds) in place; once an UmountVolume of the volume has succeeded a
\* DeleteVolume of it can succeed, and when a DeleteVolume has succeeded the
\* config record is gone and every MountVolume and GetVolumeInfo of the id
\* returns an error.
MountedNotDeleted ==
    /\ vfs.last.op = "DeleteVolume" /\ WasMounted =>
          /\ vfs.last.out = "Cannot delete volume. It is still mounted"
          /\ VfsVolumes = vfs.last.before
          /\ vfs.last.id \in vfs.configs
          /\ vfs.last.before.volume[vfs.last.id].Path \in vfs.last.before.dirs =>
                vfs.volume[vfs.last.id].Path \in vfs.dirs
    /\ vfs.last.op = "UmountVolume" /\ vfs.last.out = Empty =>
          \A referenceOnly \in BOOLEAN :
              /\ DeleteVolumeResult(vfs.last.id, referenceOnly, "none").out = Empty
              /\ ENABLED (/\ DeleteVolume(vfs.last.id, referenceOnly, "none")
                          /\ vfs'.last.out = Empty
                          /\ vfs.last.id \notin vfs'.configs)
    /\ vfs.last.op = "DeleteVolume" /\ vfs.last.out = Empty =>
          /\ ~WasMounted
          /\ vfs.last.id \notin vfs.configs
          /\ GetVolumeInfoResult(vfs.last.id).out # Empty
          /\ \A specifiedPoint \in MountPointArgs, prepareForVM \in BOOLEAN,
                failAt \in VolumeFailures :
                MountVolumeResult(vfs.last.id, specifiedPoint, prepareForVM,
                                  failAt).out # Empty

\* a DeleteVolume of a mounted volume whose directory exists has been
\* refused
MountedNotDeletedWitness ==
    /\ vfs.last.op = "DeleteVolume"
    /\ WasMounted
    /\ vfs.last.out # Empty
    /\ vfs.last.before.volume[vfs.last.id].Path \in vfs.dirs

\* C25: no two callers are at the same time about to read or write the
\* volume map or the volume's record of the same driver, for the vfs, nfs
\* and ceph drivers.
PerDriverOrdering ==
    \A c1, c2 \in Callers :
        /\ c1 # c2
        /\ drv.proc[c1].driver = drv.proc[c2].driver
        /\ Accessing(c1)
        => ~Accessing(c2)

\* C24: the bare (non-verbose) answer of backup create contains no raw '&',
\* however many the backup URL has.
AmpersandEscaping ==
    ~reply.verbose => \A i \in 1..Len(reply.body) : reply.body[i] # "&"

\* C29: a LockFile of a file whose lock is held returns no handle and
\* 'resource temporarily unavailable' and leaves the lock held, so that
\* every further LockFile of a held file is refused as well, however many
\* were refused before; after the UnlockFile of the held handle a LockFile
\* of the file succeeds.
FileLockExclusion ==
    /\ flock.last.op = "LockFile" /\ flock.last.held =>
          /\ flock.last.handle = Empty
          /\ flock.last.err = "resource temporarily unavailable"
          /\ flock.last.path \in flock.held
    /\ \A path \in flock.held :
          /\ LockFileResult(path).handle = Empty
          /\ LockFileResult(path).err = "resource temporarily unavailable"
    /\ flock.last.op = "UnlockFile" /\ flock.last.err = Empty =>
          /\ LockFileResult(flock.last.path).handle # Empty
          /\ LockFileResult(flock.last.path).err = Empty
          /\ ENABLED (/\ LockFile(flock.last.path)
                      /\ flock'.last.err = Empty)

\* a LockFile of a held file has been refused for the second time
FileLockExclusionWitness ==
    /\ flock.last.op = "LockFile"
    /\ flock.last.held
    /\ flock.last.err # Empty
    /\ flock.refused[flock.last.path] >= 2

\* the digits of str, or the digits before its unit letter
NumericPart(str) ==
    IF str # <<>> /\ ToLower(str)[Len(str)] \in Units
    THEN SubSeq(str, 1, Len(str) - 1) ELSE str

IsInteger(str) == str # <<>> /\ \A i \in 1..Len(str) : str[i] \in {"0", "1", "2"}

RECURSIVE Power(_, _)
Power(b, e) == IF e = 0 THEN 1 ELSE b * Power(b, e - 1)

RECURSIVE Decimal(_)
\* the number a string of digits denotes
Decimal(str) ==
    IF str = <<>> THEN 0
    ELSE DigitValue(Head(str)) * Power(10, Len(str) - 1) + Decimal(Tail(str))

\* the power of 1024 a trailing unit letter stands for, 0 without one
Exponent(str) ==
    IF str = <<>> THEN 0
    ELSE CASE str[Len(str)] \in {"k", "K"} -> 1
           [] str[Len(str)] \in {"m", "M"} -> 2
           [] str[Len(str)] \in {"g", "G"} -> 3
           [] OTHER -> 0

\* C30: ParseSize of the empty string is 0 with no error; of a decimal
\* integer n, n; of n followed by k, m or g in either case, n*1024,
\* n*1024^2, n*1024^3 (so 0 with any unit is 0), with no error; of a string
\* whose numeric part is missing or not an integer, 0 and a parse error.
ParseSizeContract ==
    LET number == NumericPart(parsed.size) IN
    parsed.err # Pending =>
    /\ parsed.size = <<>> => parsed.value = 0 /\ parsed.err = Empty
    /\ IsInteger(number) =>
          /\ parsed.value = Decimal(number) * Power(1024, Exponent(parsed.size))
          /\ parsed.err = Empty
    /\ parsed.size # <<>> /\ ~IsInteger(number) =>
          /\ parsed.value = 0
          /\ parsed.err = "invalid syntax"

\* a size with an upper-case unit has been parsed to a non-zero value
ParseSizeContractWitness ==
    /\ Len(parsed.size) >= 2
    /\ parsed.size[Len(parsed.size)] \in {"K", "M", "G"}
    /\ parsed.value > 0
    /\ parsed.err = Empty

\* C31: when a snapshot create of volume V with name N returns success with
\* UUID U, U is in V's snapshot map with VolumeUUID V, U is in the UUID
\* index, the Snapshot-Volume index maps U to V, the name index maps N to U
\* if N is not empty and is as the request found it if N is empty, and the
\* driver holds the snapshot U of V.
SnapshotCreatePostcondition ==
    \A r \in Inside({"SnapshotCreate"}) :
        pc[r] = "ret" /\ result[r] = "ok" =>
            LET U == local[r].uuid
                V == req[r].volume
                N == req[r].name
            IN
            /\ U # Empty
            /\ U \in DOMAIN volumes[V]
            /\ volumes[V][U] = [UUID |-> U, VolumeUUID |-> V]
            /\ U \in UUIDIndex
            /\ IndexGet(SnapshotVolumeIndex, U) = V
            /\ N # Empty => IndexGet(NameUUIDIndex, N) = U
            /\ N = Empty => NameUUIDIndex = local[r].pre.NameUUIDIndex
            /\ HasDriverSnapshot(U, V)
            /\ U \notin local[r].pre.UUIDIndex

\* an unnamed snapshot create has returned success after a named one bound
\* its name
SnapshotCreatePostconditionWitness ==
    \E r \in Requests :
        /\ pc[r] = "ret" /\ req[r].op = "SnapshotCreate" /\ result[r] = "ok"
        /\ req[r].name = Empty
        /\ local[r].pre.NameUUIDIndex # EmptyIndex

\* C32: a snapshot delete removes the Snapshot-Volume index entry before
\* the UUID index entry, so that at no point of the request the snapshot is
\* absent from the UUID index while the Snapshot-Volume index still has it.
DeleteStepOrder ==
    \A r \in Inside({"SnapshotDelete"}) :
        /\ "UUIDIndex.Delete" \in local[r].calls =>
              "SnapshotVolumeIndex.Delete" \in local[r].calls
        /\ req[r].snapshot \notin UUIDIndex =>
              IndexGet(SnapshotVolumeIndex, req[r].snapshot) = Empty

\* C33: when a snapshot delete returns success and the snapshot was created
\* with a name N, N is no longer bound in the name index, for every driver
\* with snapshot operations.
NameReleasedOnDelete ==
    \A r \in Inside({"SnapshotDelete"}) :
        /\ pc[r] = "ret"
        /\ result[r] = "ok"
        /\ req[r].snapshot \in DOMAIN local[r].preDriver
        /\ local[r].preDriver[req[r].snapshot].name # Empty
        => IndexGet(NameUUIDIndex, local[r].preDriver[req[r].snapshot].name) = Empty

\* the handler's step ends the request with the 'doesn't exist' error, has
\* called no driver operation and leaves the snapshot maps, the indices, the
\* volume records, the driver's snapshots and the backups as they were
RefusedUntouched(r) ==
    /\ pc'[r] = "ret"
    /\ result'[r] = "snapshot doesn't exist"
    /\ local'[r].calls \cap DriverOperations = {}
    /\ volumes' = volumes
    /\ UUIDIndex' = UUIDIndex
    /\ SnapshotVolumeIndex' = SnapshotVolumeIndex
    /\ NameUUIDIndex' = NameUUIDIndex
    /\ durable' = durable
    /\ driverSnapshots' = driverSnapshots
    /\ backups' = backups

\* the volume is absent or its snapshot map does not hold the snapshot
NotHeldBy(owner, s) == owner \notin Volumes \/ s \notin DOMAIN volumes[owner]

\* C34: a snapshot delete of a snapshot that the Snapshot-Volume index maps
\* to a volume that is absent or whose snapshot map lacks it, and a backup
\* create that resolved its snapshot to such a volume, fail with 'doesn't
\* exist', call no driver operation and change no index or snapshot map.
DesynchronizationGuard ==
    [][\A r \in Requests :
         /\ ( /\ pc[r] = "idle" /\ pc'[r] # "idle"
              /\ req'[r].op = "SnapshotDelete"
              /\ req'[r].snapshot \in DOMAIN SnapshotVolumeIndex
              /\ NotHeldBy(SnapshotVolumeIndex[req'[r].snapshot], req'[r].snapshot) )
            => RefusedUntouched(r)
         /\ ( /\ pc[r] = "bc_exists" /\ pc'[r] # "bc_exists"
              /\ NotHeldBy(local[r].volumeUUID, req[r].snapshot) )
            => RefusedUntouched(r)]_vars

\* a snapshot delete has been refused for a snapshot that the index maps to
\* an existing volume whose snapshot map lacks it, while the driver holds it
DesynchronizationGuardWitness ==
    \E r \in Requests :
        /\ pc[r] = "ret"
        /\ req[r].op = "SnapshotDelete"
        /\ result[r] = "snapshot doesn't exist"
        /\ IndexGet(SnapshotVolumeIndex, req[r].snapshot) \in Volumes
        /\ req[r].snapshot \in DOMAIN driverSnapshots

\* the steps of doSnapshotCreate after the snapshot map entry was written
Registration == {"sc_uuid", "sc_owner", "sc_name", "sc_save"}

\* the error the registration step at label l of request r returns, Empty if
\* it succeeds; saved tells whether saveVolume wrote the volume record
StepError(r, l, saved) ==
    CASE l = "sc_uuid" -> UUIDAdd(UUIDIndex, local[r].uuid).err
      [] l = "sc_owner" -> IndexAdd(SnapshotVolumeIndex, local[r].uuid, req[r].volume).err
      [] l = "sc_name" -> IF req[r].name = Empty THEN Empty
                          ELSE IndexAdd(NameUUIDIndex, req[r].name, local[r].uuid).err
      [] l = "sc_save" -> IF saved THEN Empty ELSE "save error"

\* C35: when the UUID index Add, the Snapshot-Volume index Add, the name
\* index Add or saveVolume of a snapshot create fails, the request returns
\* that step's error, the snapshot map entry and the index entries of the
\* earlier steps stay, the later steps are not applied and the driver keeps
\* the snapshot it created.
NoRollbackOnRegistrationFailure ==
    [][\A r \in Requests :
         LET U == local[r].uuid
             V == req[r].volume
             N == req[r].name
             saved == durable'[V] = volumes[V]
         IN
         pc[r] \in Registration /\ pc'[r] = "ret" /\ StepError(r, pc[r], saved) # Empty =>
             /\ result'[r] = StepError(r, pc[r], saved)
             /\ U \in DOMAIN volumes'[V]
             /\ pc[r] \in {"sc_owner", "sc_name", "sc_save"} => U \in UUIDIndex'
             /\ pc[r] \in {"sc_name", "sc_save"} => IndexGet(SnapshotVolumeIndex', U) = V
             /\ pc[r] = "sc_save" /\ N # Empty => IndexGet(NameUUIDIndex', N) = U
             /\ pc[r] = "sc_uuid" => IndexGet(SnapshotVolumeIndex', U) = Empty
             /\ pc[r] \in {"sc_uuid", "sc_owner"} /\ N # Empty =>
                   IndexGet(NameUUIDIndex', N) # U
             /\ durable' = durable
             /\ U \notin DOMAIN durable'[V]
             /\ driverSnapshots' = driverSnapshots
             /\ HasDriverSnapshot(U, V)
             /\ "DeleteSnapshot" \notin local'[r].calls
             /\ "GetSnapshotInfo" \notin local'[r].calls]_vars

\* a named snapshot create has returned the error of saveVolume with the
\* snapshot in the snapshot map, the three indices and the driver
NoRollbackOnRegistrationFailureWitness ==
    \E r \in Requests :
        /\ pc[r] = "ret"
        /\ req[r].op = "SnapshotCreate"
        /\ result[r] = "save error"
        /\ req[r].name # Empty
        /\ local[r].uuid \in DOMAIN volumes[req[r].volume]
        /\ local[r].uuid \in UUIDIndex
        /\ IndexGet(NameUUIDIndex, req[r].name) = local[r].uuid
        /\ local[r].uuid \in DOMAIN driverSnapshots


(***************************************************************************)
(* The vfs driver's d.mutex, a sync.RWMutex.  Lock() first becomes the     *)
(* one pending writer, which keeps new readers out, and then waits until   *)
(* the readers that hold the mutex have left; RLock() waits while a writer *)
(* is pending or holds the mutex.  The mutex is not reentrant.  A call's   *)
(* frames are a stack: ListSnapshot calls GetSnapshotInfo and ListVolume   *)
(* calls GetVolumeInfo, each of which locks d.mutex itself.  The file      *)
(* operations succeed here; their failures are followed in VfsSpec.        *)
(***************************************************************************)
ListOps == {"ListSnapshot", "ListVolume"}

ReadOps == {"ListVolume", "GetVolumeInfo"}

MutatingOps == {"CreateVolume", "MountVolume", "UmountVolume", "DeleteVolume"}

LkFrame(op, id, volume) ==
    [op |-> op, id |-> id, volume |-> volume,
     at |-> IF op \in ReadOps THEN "RLock" ELSE "Lock",
     todo |-> {}, out |-> {}, err |-> Empty]

SnapshotCalls ==
    {LkFrame("ListSnapshot", Empty, v) : v \in LockedVolumes \cup {Empty}}
    \cup {LkFrame(op, id, v) : op \in {"CreateSnapshot", "DeleteSnapshot", "GetSnapshotInfo"},
                               id \in LockedSnapshots, v \in LockedVolumes}

VolumeCalls ==
    {LkFrame("ListVolume", Empty, Empty)}
    \cup {LkFrame(op, Empty, v) : op \in MutatingOps \cup {"GetVolumeInfo"},
                                  v \in LockedVolumes}

Top(c) == Head(vfsMutex.stack[c])

\* the call the caller made on the driver, under the calls it made itself
Outer(c) == vfsMutex.stack[c][Len(vfsMutex.stack[c])]

Running(c, ops) == vfsMutex.stack[c] # << >> /\ Outer(c).op \in ops

At(c, at) == vfsMutex.stack[c] # << >> /\ Top(c).at = at

LkUnchanged ==
    UNCHANGED <<handlerVars, backups, indexVars, vfsVars, ConvoyDrivers, reply, drv,
                flock, parsed, nfsd, cephd, retryer>>

LkCall(c, call) ==
    /\ vfsMutex.stack[c] = << >>
    /\ vfsMutex.left > 0
    /\ vfsMutex' = [vfsMutex EXCEPT !.stack[c] = <<call>>, !.left = @ - 1]
    /\ LkUnchanged

\* d.mutex.Lock(), first half: the caller becomes the pending writer
LkLock(c) ==
    /\ At(c, "Lock")
    /\ vfsMutex.writer = 0
    /\ vfsMutex' = [vfsMutex EXCEPT !.writer = c, !.stack[c][1].at = "readers"]
    /\ LkUnchanged

\* d.mutex.Lock(), second half: the readers have left
LkReaders(c) ==
    /\ At(c, "readers")
    /\ \A c2 \in Callers : vfsMutex.readers[c2] = 0
    /\ vfsMutex' = [vfsMutex EXCEPT !.stack[c][1].at = "body"]
    /\ LkUnchanged

\* d.mutex.RLock()
LkRLock(c) ==
    /\ At(c, "RLock")
    /\ vfsMutex.writer = 0
    /\ vfsMutex' = [vfsMutex EXCEPT !.readers[c] = @ + 1, !.stack[c][1].at = "body"]
    /\ LkUnchanged

\* what an operation does to the volume's record under the mutex, the keys
\* of the map it returns and its error
LkEffect(f, v) ==
    LET no == [v |-> v, out |-> {}, err |-> "no such volume"] IN
    CASE f.op = "CreateVolume" ->
           IF v.exists THEN [v |-> v, out |-> {}, err |-> "already exists"]
           ELSE [v |-> Fresh, out |-> {}, err |-> Empty]
      [] f.op = "DeleteVolume" ->
           IF ~v.exists THEN no
           ELSE IF v.mounted THEN [v |-> v, out |-> {}, err |-> "still mounted"]
           ELSE [v |-> Absent, out |-> {}, err |-> Empty]
      [] f.op = "MountVolume" ->
           IF ~v.exists THEN no
           ELSE [v |-> [v EXCEPT !.mounted = TRUE], out |-> {}, err |-> Empty]
      [] f.op = "UmountVolume" ->
           IF ~v.exists THEN no
           ELSE [v |-> [v EXCEPT !.mounted = FALSE], out |-> {}, err |-> Empty]
      [] f.op = "GetVolumeInfo" ->
           IF ~v.exists THEN no
           ELSE [v |-> v, out |-> {f.volume}, err |-> Empty]
      [] f.op = "CreateSnapshot" ->
           IF ~v.exists THEN no
           ELSE IF f.id \in v.Snapshots
           THEN [v |-> v, out |-> {}, err |-> "already exists"]
           ELSE [v |-> [v EXCEPT !.Snapshots = @ \cup {f.id}], out |-> {}, err |-> Empty]
      [] f.op = "DeleteSnapshot" ->
           IF ~v.exists THEN no
           ELSE IF f.id \notin v.Snapshots
           THEN [v |-> v, out |-> {}, err |-> "doesn't exists"]
           ELSE [v |-> [v EXCEPT !.Snapshots = @ \ {f.id}], out |-> {}, err |-> Empty]
      [] f.op = "GetSnapshotInfo" ->
           IF ~v.exists THEN no
           ELSE IF f.id \notin v.Snapshots
           THEN [v |-> v, out |-> {}, err |-> "doesn't exists"]
           ELSE [v |-> v, out |-> {f.id}, err |-> Empty]

\* the deferred d.mutex.Unlock() or d.mutex.RUnlock() of the frame on top
LkUnlock(c, m) ==
    IF Top(c).op \in ReadOps
    THEN [m EXCEPT !.readers[c] = @ - 1]
    ELSE [m EXCEPT !.writer = 0]

\* the frame on top returns: its caller is the code that called the driver,
\* or the loop of the frame below, which stops at the first error
LkReturnTo(c, m, out, err) ==
    LET f == Top(c)
        rest == Tail(vfsMutex.stack[c])
    IN
    IF rest = << >>
    THEN [m EXCEPT !.stack[c] = << >>,
                   !.done = [caller |-> c, op |-> f.op, out |-> out, err |-> err]]
    ELSE [m EXCEPT !.stack[c] =
             <<[rest[1] EXCEPT !.out = @ \cup out,
                               !.err = err,
                               !.todo = IF err = Empty
                                        THEN {t \in @ : t # <<f.id, f.volume>>}
                                        ELSE {}]>>
             \o Tail(rest)]

\* the body of an operation that is no listing, and its return
LkBody(c) ==
    /\ At(c, "body")
    /\ Top(c).op \notin ListOps
    /\ LET f == Top(c)
           did == LkEffect(f, vfsMutex.disk[f.volume])
       IN vfsMutex' = LkReturnTo(c, LkUnlock(c, [vfsMutex EXCEPT !.disk[f.volume] = did.v]),
                                 did.out, did.err)
    /\ LkUnchanged

\* ListSnapshot: the volumes are the one named or the ones listVolumeIDs
\* finds, each is loaded and its Snapshots map is ranged over; ListVolume:
\* the volumes listVolumeIDs finds are ranged over
LkList(c) ==
    /\ At(c, "body")
    /\ Top(c).op \in ListOps
    /\ LET f == Top(c)
           ids == IF f.volume # Empty THEN {f.volume}
                  ELSE {v \in LockedVolumes : vfsMutex.disk[v].exists}
       IN
       vfsMutex' =
           IF \E v \in ids : ~vfsMutex.disk[v].exists
           THEN [vfsMutex EXCEPT !.stack[c][1].at = "range",
                                 !.stack[c][1].err = "no such volume"]
           ELSE [vfsMutex EXCEPT !.stack[c][1].at = "range",
                                 !.stack[c][1].todo =
                                     IF f.op = "ListVolume"
                                     THEN {<<Empty, v>> : v \in ids}
                                     ELSE {<<s2, v>> : s2 \in LockedSnapshots, v \in ids}
                                          \cap {t \in LockedSnapshots \X LockedVolumes :
                                                  t[1] \in vfsMutex.disk[t[2]].Snapshots}]
    /\ LkUnchanged

\* one round of the loop: d.GetSnapshotInfo or d.GetVolumeInfo is called for
\* an element not yet visited; the listing returns after the last one or
\* with the first error
LkRange(c) ==
    /\ At(c, "range")
    /\ LET f == Top(c) IN
       IF f.err = Empty /\ f.todo # {}
       THEN \E t \in f.todo :
               vfsMutex' = [vfsMutex EXCEPT !.stack[c] =
                   <<LkFrame(IF f.op = "ListVolume" THEN "GetVolumeInfo"
                             ELSE "GetSnapshotInfo", t[1], t[2])>> \o @]
       ELSE vfsMutex' = LkReturnTo(c, LkUnlock(c, vfsMutex),
                                   IF f.err = Empty THEN f.out ELSE {}, f.err)
    /\ LkUnchanged

\* the daemon, the stand-alone index, the drivers of the earlier sections and
\* the utilities before any call
QuietInit ==
    /\ volumes = [v \in Volumes |-> EmptyIndex]
    /\ durable = [v \in Volumes |-> EmptyIndex]
    /\ UUIDIndex = Volumes
    /\ SnapshotVolumeIndex = EmptyIndex
    /\ NameUUIDIndex = EmptyIndex
    /\ driverSnapshots = EmptyIndex
    /\ backups = {}
    /\ minted = 0
    /\ served = 0
    /\ GlobalLock = [writer |-> None, readers |-> {}]
    /\ pc = [r \in Requests |-> "idle"]
    /\ req = [r \in Requests |-> NoRequest]
    /\ local = [r \in Requests |-> NoLocal]
    /\ result = [r \in Requests |-> Empty]
    /\ index = EmptyIndex
    /\ lastOp = NoLastOp
    /\ vfs = NoVfs
    /\ ConvoyDrivers = LoadedDrivers
    /\ reply = NoReply
    /\ drv = NoDrv
    /\ flock = NoFlock
    /\ parsed = NoParsed

\* each volume is on disk or not when the calls start
LkInit ==
    /\ QuietInit
    /\ nfsd = NoNfs
    /\ cephd = NoCeph
    /\ retryer = NoRetry
    /\ \E disk \in [LockedVolumes -> {Absent, Fresh}] :
          vfsMutex = [NoLocking EXCEPT !.disk = disk]

\* the steps of the calls in progress: a goroutine that can run is run
SnapshotListRun(c) ==
    LkLock(c) \/ LkReaders(c) \/ LkBody(c) \/ LkList(c) \/ LkRange(c)

SnapshotListNext ==
    \/ \E c \in Callers, call \in SnapshotCalls : LkCall(c, call)
    \/ \E c \in Callers : LkLock(c)
    \/ \E c \in Callers : LkReaders(c)
    \/ \E c \in Callers : LkBody(c)
    \/ \E c \in Callers : LkList(c)
    \/ \E c \in Callers : LkRange(c)

SnapshotListSpec ==
    /\ LkInit
    /\ [][SnapshotListNext]_vars
    /\ \A c \in Callers : WF_vars(SnapshotListRun(c))

VolumeListRun(c) ==
    LkRLock(c) \/ LkLock(c) \/ LkReaders(c) \/ LkBody(c) \/ LkList(c) \/ LkRange(c)

VolumeListNext ==
    \/ \E c \in Callers, call \in VolumeCalls : LkCall(c, call)
    \/ \E c \in Callers : LkRLock(c)
    \/ \E c \in Callers : LkLock(c)
    \/ \E c \in Callers : LkReaders(c)
    \/ \E c \in Callers : LkBody(c)
    \/ \E c \in Callers : LkList(c)
    \/ \E c \in Callers : LkRange(c)

VolumeListSpec ==
    /\ LkInit
    /\ [][VolumeListNext]_vars
    /\ \A c \in Callers : WF_vars(VolumeListRun(c))

\* C36: a ListSnapshot call on a driver that holds a volume with a snapshot
\* returns; when a ListSnapshot call returns without error its result has
\* one entry for every snapshot in the Snapshots maps of the volumes it was
\* asked for, and the caller no longer holds or waits for d.mutex
ListSnapshotTerminates ==
    /\ \A c \in Callers :
          (/\ Running(c, {"ListSnapshot"})
           /\ \E v \in LockedVolumes : vfsMutex.disk[v].Snapshots # {})
          ~> (vfsMutex.stack[c] = << >>)
    /\ [][\A c \in Callers :
            (Running(c, {"ListSnapshot"}) /\ vfsMutex'.stack[c] = << >>) =>
               /\ vfsMutex'.writer # c
               /\ vfsMutex'.done.err = Empty =>
                     vfsMutex'.done.out =
                        UNION {vfsMutex.disk[v].Snapshots :
                                 v \in IF Outer(c).volume # Empty THEN {Outer(c).volume}
                                       ELSE LockedVolumes}]_vars


\* C37: when ListVolume and a mutating operation (CreateVolume, MountVolume,
\* UmountVolume, DeleteVolume) run on the driver at the same time, each of
\* the two calls returns, whatever the interleaving
ListVolumeNoDeadlock ==
    \A c1 \in Callers : \A c2 \in Callers \ {c1} :
       /\ (Running(c1, {"ListVolume"}) /\ Running(c2, MutatingOps))
             ~> (vfsMutex.stack[c1] = << >>)
       /\ (Running(c1, {"ListVolume"}) /\ Running(c2, MutatingOps))
             ~> (vfsMutex.stack[c2] = << >>)


(***************************************************************************)
(* The nfs driver.  MountVolume runs under d.mutex from its first to its   *)
(* last statement, so a call is one step; the other volume operations of   *)
(* the driver have no body or only read d.volumes.                         *)
(***************************************************************************)
NfsFailures == {"none", "TempDir", "VolumeMount"}

NfsUnchanged ==
    UNCHANGED <<handlerVars, backups, indexVars, vfsVars, ConvoyDrivers, reply, drv,
                flock, parsed, vfsMutex, cephd, retryer>>

\* util.VolumeMount(v, dirName, false) on the volume just made: the mount
\* point is the volume's own MountPoint and a new directory, so the mount
\* is called; on its success the volume is mounted at the directory
NfsVolumeMount(n, name, dirName, ok) ==
    IF ok
    THEN [n EXCEPT !.mounts = @ \cup {<<name, dirName>>},
                   !.last = [op |-> "MountVolume", name |-> name, out |-> dirName,
                             err |-> Empty]]
    ELSE [n EXCEPT !.last = [op |-> "MountVolume", name |-> name, out |-> 0,
                             err |-> "mount error"]]

\* MountVolume: a volume in the map with a mount point is returned as it is;
\* otherwise a directory is made, the volume is put into d.volumes with the
\* directory as its MountPoint, and then it is mounted
NfsMountVolumeResult(n, name, failAt) ==
    IF n.volumes[name] # 0
    THEN [n EXCEPT !.last = [op |-> "MountVolume", name |-> name,
                             out |-> n.volumes[name], err |-> Empty]]
    ELSE IF failAt = "TempDir"
    THEN [n EXCEPT !.last = [op |-> "MountVolume", name |-> name, out |-> 0,
                             err |-> "TempDir error"]]
    ELSE LET dirName == n.dirs + 1 IN
         NfsVolumeMount([n EXCEPT !.dirs = dirName, !.volumes[name] = dirName],
                        name, dirName, failAt # "VolumeMount")

NfsMountVolume(name, failAt) ==
    /\ nfsd.dirs < MaxTempDirs
    /\ nfsd' = NfsMountVolumeResult(nfsd, name, failAt)
    /\ NfsUnchanged

\* CreateVolume, DeleteVolume and UmountVolume return nil and do nothing
NfsNoOp(op, name) ==
    /\ nfsd' = [nfsd EXCEPT !.last = [op |-> op, name |-> name, out |-> 0, err |-> Empty]]
    /\ NfsUnchanged

\* MountPoint: the volume's MountPoint if the name is in d.volumes
NfsMountPoint(name) ==
    /\ nfsd' = [nfsd EXCEPT !.last =
                   IF nfsd.volumes[name] = 0
                   THEN [op |-> "MountPoint", name |-> name, out |-> 0,
                         err |-> "is not mounted"]
                   ELSE [op |-> "MountPoint", name |-> name, out |-> nfsd.volumes[name],
                         err |-> Empty]]
    /\ NfsUnchanged

NfsNext ==
    \/ \E name \in NfsNames, failAt \in NfsFailures : NfsMountVolume(name, failAt)
    \/ \E name \in NfsNames, op \in {"CreateVolume", "DeleteVolume", "UmountVolume"} :
          NfsNoOp(op, name)
    \/ \E name \in NfsNames : NfsMountPoint(name)

NfsSpec == Init /\ [][NfsNext]_vars

\* C38: the nfs MountVolume returns a mount point and no error only if the
\* volume is mounted at that mount point, by this call or by an earlier one
NfsMountSuccessMeansMounted ==
    (nfsd.last.op = "MountVolume" /\ nfsd.last.err = Empty) =>
       <<nfsd.last.name, nfsd.last.out>> \in nfsd.mounts


(***************************************************************************)
(* The ceph driver's MountVolume, one step for each of its statements that *)
(* can fail, and the deferred function that unmaps the image.              *)
(***************************************************************************)
ErrNoFilesystemDetected == "no filesystem detected"

cryptoLuksFsType == "crypto_LUKS"

CephUnchanged ==
    UNCHANGED <<handlerVars, backups, indexVars, vfsVars, ConvoyDrivers, reply, drv,
                flock, parsed, vfsMutex, nfsd, retryer>>

\* fs.Detect: the type blkid prints, ErrNoFilesystemDetected for a device
\* with nothing on it, or another error
Detect(content, ok) ==
    IF ~ok THEN [fsType |-> Empty, err |-> "Detect error"]
    ELSE IF content = "unformatted" THEN [fsType |-> Empty, err |-> ErrNoFilesystemDetected]
    ELSE [fsType |-> content, err |-> "nil"]

\* what fs.Detect finds on the mapped device, and on the opened LUKS device
OnDevice(disk) ==
    IF disk \in {"luks unformatted", "luks ext4"} THEN cryptoLuksFsType ELSE disk

InLUKS(disk) == IF disk = "luks ext4" THEN "ext4" ELSE "unformatted"

\* return "", err from a statement after the defer statement
CephFail(at, err) ==
    [cephd EXCEPT !.pc = "deferred", !.err = err, !.failed = at,
                  !.ret = [mountPoint |-> Empty, err |-> err]]

\* MountVolume starts: var err error
CephMountVolume ==
    /\ cephd.pc = "idle"
    /\ cephd' = [cephd EXCEPT !.pc = "map", !.err = "nil", !.fsType = Empty,
                              !.mountDevice = Empty, !.unmaps = 0, !.failed = Empty,
                              !.detected = Empty, !.ret = NoCephReturn]
    /\ CephUnchanged

\* if _, err := volume.Map(...); err != nil { return "", err }: this err is
\* a variable of the if statement; the function is deferred after it
CephMvMap ==
    /\ cephd.pc = "map"
    /\ \E ok \in BOOLEAN :
          cephd' = IF ok
                   THEN [cephd EXCEPT !.pc = "detect", !.Device = "/dev/rbd0"]
                   ELSE [cephd EXCEPT !.pc = "done", !.failed = "Map",
                                      !.ret = [mountPoint |-> Empty, err |-> "Map error"]]
    /\ CephUnchanged

\* fsType, err := fs.Detect(volume.Device): err is the function's variable
CephMvDetect ==
    /\ cephd.pc = "detect"
    /\ \E ok \in BOOLEAN :
          LET found == Detect(OnDevice(cephd.disk), ok) IN
          cephd' = IF found.err # "nil" /\ found.err # ErrNoFilesystemDetected
                   THEN [CephFail("Detect", found.err) EXCEPT !.detected = found.err]
                   ELSE [cephd EXCEPT !.pc = IF found.fsType = cryptoLuksFsType
                                             THEN "luks" ELSE "check",
                                      !.err = found.err, !.detected = found.err,
                                      !.fsType = found.fsType,
                                      !.mountDevice = IF found.fsType = cryptoLuksFsType
                                                      THEN Empty ELSE cephd.Device]
    /\ CephUnchanged

\* if err = volume.LUKSEncryption(); err != nil { return "", err }
CephMvLuks ==
    /\ cephd.pc = "luks"
    /\ \E ok \in BOOLEAN :
          cephd' = IF ok
                   THEN [cephd EXCEPT !.pc = "check", !.err = "nil",
                                      !.LUKSDevice = "/dev/mapper/luks",
                                      !.mountDevice = "/dev/mapper/luks"]
                   ELSE CephFail("LUKSEncryption", "luksOpen error")
    /\ CephUnchanged

\* d.checkDevice: a device with nothing on it is formatted, then the file
\* system is resized and checked; the first error is returned
checkDevice(content, failAt) ==
    IF failAt = "Detect" THEN [content |-> content, err |-> "Detect error"]
    ELSE IF content = "unformatted" /\ failAt = "FormatDevice"
    THEN [content |-> content, err |-> "FormatDevice error"]
    ELSE IF failAt \in {"Resize", "Check"}
    THEN [content |-> "ext4", err |-> failAt \o " error"]
    ELSE [content |-> "ext4", err |-> "nil"]

\* the check of the device with its result kept in a variable of the if
\* statement: if err := d.checkDevice(mountDevice); err != nil
CephMvCheck_Shadowed ==
    /\ cephd.pc = "check"
    /\ \E failAt \in {"none", "Detect", "FormatDevice", "Resize", "Check"} :
          LET luks == cephd.fsType = cryptoLuksFsType
              checked == checkDevice(IF luks THEN InLUKS(cephd.disk) ELSE cephd.disk, failAt)
              disk == IF luks THEN "luks " \o checked.content ELSE checked.content
          IN
          cephd' = IF checked.err # "nil"
                   THEN [cephd EXCEPT !.pc = "deferred", !.failed = "checkDevice",
                                      !.ret = [mountPoint |-> Empty, err |-> checked.err],
                                      !.disk = disk]
                   ELSE [cephd EXCEPT !.pc = "mount", !.disk = disk]
    /\ CephUnchanged

\* if err = d.checkDevice(mountDevice); err != nil { return "", err }
CephMvCheck ==
    /\ cephd.pc = "check"
    /\ \E failAt \in {"none", "Detect", "FormatDevice", "Resize", "Check"} :
          LET luks == cephd.fsType = cryptoLuksFsType
              checked == checkDevice(IF luks THEN InLUKS(cephd.disk) ELSE cephd.disk, failAt)
              disk == IF luks THEN "luks " \o checked.content ELSE checked.content
          IN
          cephd' = IF checked.err # "nil"
                   THEN [CephFail("checkDevice", checked.err) EXCEPT !.disk = disk]
                   ELSE [cephd EXCEPT !.pc = "mount", !.err = "nil", !.disk = disk]
    /\ CephUnchanged

\* mountPoint, err := util.VolumeMount(volume, "", false); return mountPoint, err
CephMvMount ==
    /\ cephd.pc = "mount"
    /\ \E ok \in BOOLEAN :
          cephd' = IF ok
                   THEN [cephd EXCEPT !.pc = "deferred", !.err = "nil", !.mounted = TRUE,
                                      !.ret = [mountPoint |-> "/mnt/volume", err |-> "nil"]]
                   ELSE CephFail("VolumeMount", "mount error")
    /\ CephUnchanged

\* unmapCephVolume: rbd unmap; Device is cleared if it succeeds
unmapCephVolume(c, ok) ==
    IF ok THEN [c EXCEPT !.unmaps = @ + 1, !.Device = Empty, !.err = "nil"]
    ELSE [c EXCEPT !.unmaps = @ + 1, !.err = "unmap error"]

\* the deferred function: if err != nil { err = volume.unmapCephVolume() };
\* the values MountVolume returns are the ones of its return statement
CephMvDeferred ==
    /\ cephd.pc = "deferred"
    /\ IF cephd.err # "nil"
       THEN \E ok \in BOOLEAN :
               cephd' = unmapCephVolume([cephd EXCEPT !.pc = "done"], ok)
       ELSE cephd' = [cephd EXCEPT !.pc = "done"]
    /\ CephUnchanged

CephMvReturn ==
    /\ cephd.pc = "done"
    /\ cephd' = [cephd EXCEPT !.pc = "idle"]
    /\ CephUnchanged

\* UmountVolume: util.VolumeUmount, then volume.Unmap, which always ends
\* with unmapCephVolume
CephUmountVolume ==
    /\ cephd.pc = "idle"
    /\ \E umounted, ok \in BOOLEAN :
          cephd' = IF ~umounted THEN cephd
                   ELSE [unmapCephVolume([cephd EXCEPT !.mounted = FALSE], ok)
                            EXCEPT !.unmaps = 0, !.err = "nil", !.LUKSDevice = Empty]
    /\ CephUnchanged

\* the image holds any of the contents when the first call starts
CephInit ==
    /\ QuietInit
    /\ vfsMutex = NoLocking
    /\ nfsd = NoNfs
    /\ retryer = NoRetry
    /\ \E disk \in CephDisks : cephd = [NoCeph EXCEPT !.disk = disk]

CephNext ==
    \/ CephMountVolume
    \/ CephMvMap
    \/ CephMvDetect
    \/ CephMvLuks
    \/ CephMvCheck
    \/ CephMvMount
    \/ CephMvDeferred
    \/ CephMvReturn
    \/ CephUmountVolume

CephSpec == CephInit /\ [][CephNext]_vars

\* C39: when MountVolume has returned an error from a statement after the
\* image was mapped (fs.Detect, LUKSEncryption, checkDevice, VolumeMount),
\* unmapCephVolume has run once before the return; when it has returned no
\* error, unmapCephVolume has not run and Device is still set, also when
\* fs.Detect had found no file system on the device
CephMountCleansUp ==
    cephd.pc = "done" =>
       /\ cephd.failed \in {"Detect", "LUKSEncryption", "checkDevice", "VolumeMount"} =>
             cephd.ret.err # "nil" /\ cephd.unmaps = 1
       /\ cephd.ret.err = "nil" =>
             cephd.failed = Empty /\ cephd.unmaps = 0 /\ cephd.Device # Empty
       /\ cephd.ret.err # "nil" => cephd.failed # Empty

\* a first mount of a device with nothing on it has succeeded
CephMountCleansUpWitness ==
    /\ cephd.pc = "done"
    /\ cephd.ret.err = "nil"
    /\ cephd.detected = ErrNoFilesystemDetected
    /\ cephd.disk = "ext4"


(***************************************************************************)
(* util.ConvoyAWSRetryer.  A request is a response status, the value of    *)
(* its Retry-After header (a string, empty without the header), its        *)
(* RetryCount and whether its error is a throttling error.  Delays are     *)
(* counted in milliseconds.                                                *)
(***************************************************************************)
DefaultConvoyAWSRetryer ==
    [NumMaxRetries |-> 10, MinDelay |-> 200, MinThrottleDelay |-> 500, MaxDelay |-> 30000]

\* the longest Retry-After value
MaxHeaderLen == 2

HeaderDigits == {"0", "3"}

HeaderChars == HeaderDigits \cup {"-", "s"}

Headers == UNION {Strings(HeaderChars, n) : n \in 0..MaxHeaderLen}

StatusCodes == {200, 429, 500, 502, 503, 504}

RECURSIVE HeaderDecimal(_)
HeaderDecimal(str) ==
    IF str = <<>> THEN 0
    ELSE 10 * HeaderDecimal(SubSeq(str, 1, Len(str) - 1))
         + (IF str[Len(str)] = "3" THEN 3 ELSE 0)

\* strconv.Atoi: an optional sign and then digits, at least one
Atoi(str) ==
    LET digits == IF str # <<>> /\ Head(str) = "-" THEN Tail(str) ELSE str IN
    IF digits # <<>> /\ \A i \in 1..Len(digits) : digits[i] \in HeaderDigits
    THEN [value |-> IF Head(str) = "-" THEN 0 - HeaderDecimal(digits)
                    ELSE HeaderDecimal(digits),
          ok |-> TRUE]
    ELSE [value |-> 0, ok |-> FALSE]

shouldThrottle(r) == r.StatusCode \in {429, 502, 503, 504} \/ r.IsErrorThrottle

canUseRetryAfterHeader(r) == r.StatusCode \in {429, 503}

\* getRetryDelay: the Retry-After header in seconds, if the status allows
\* it and the header holds an integer
getRetryDelay(r) ==
    IF ~canUseRetryAfterHeader(r) \/ Len(r.RetryAfter) = 0 \/ ~Atoi(r.RetryAfter).ok
    THEN [delay |-> 0, ok |-> FALSE]
    ELSE [delay |-> Atoi(r.RetryAfter).value * 1000, ok |-> TRUE]

RECURSIVE ShiftLeft(_)
\* 1 << uint(retryCount)
ShiftLeft(count) == IF count = 0 THEN 1 ELSE 2 * ShiftLeft(count - 1)

\* RetryRules with jitter for seededRand.Intn(minTime)
RetryRulesResult(c, r, jitter) ==
    LET throttle == shouldThrottle(r)
        suggested == getRetryDelay(r)
        minTime == IF throttle THEN c.MinThrottleDelay ELSE c.MinDelay
        delay == ShiftLeft(r.RetryCount) * (jitter + minTime)
    IN
    IF throttle /\ suggested.ok
    THEN [r EXCEPT !.returned = TRUE, !.suggested = TRUE, !.delay = suggested.delay]
    ELSE [r EXCEPT !.returned = TRUE, !.uncapped = delay,
                   !.delay = IF delay > c.MaxDelay THEN c.MaxDelay ELSE delay]

RetryRules ==
    LET c == DefaultConvoyAWSRetryer
        minTime == IF shouldThrottle(retryer) THEN c.MinThrottleDelay ELSE c.MinDelay
    IN
    /\ ~retryer.returned
    /\ \E jitter \in {0, 1, minTime - 1} :
          retryer' = RetryRulesResult(c, retryer, jitter)
    /\ UNCHANGED <<handlerVars, backups, indexVars, vfsVars, ConvoyDrivers, reply, drv,
                   flock, parsed, vfsMutex, nfsd, cephd>>

\* a request that failed with any of the statuses and headers and was
\* retried up to NumMaxRetries times
RetryInit ==
    /\ QuietInit
    /\ vfsMutex = NoLocking
    /\ nfsd = NoNfs
    /\ cephd = NoCeph
    /\ \E status \in StatusCodes, header \in Headers, isThrottle \in BOOLEAN,
          count \in 0..DefaultConvoyAWSRetryer.NumMaxRetries :
          retryer = [NoRetry EXCEPT !.StatusCode = status, !.RetryAfter = header,
                                    !.RetryCount = count, !.IsErrorThrottle = isThrottle]

RetryNext == RetryRules

RetrySpec == RetryInit /\ [][RetryNext]_vars

\* C40: RetryRules returns a delay between 0 and MaxDelay milliseconds; when
\* the delay is not taken from Retry-After, the delay before the cap is at
\* least 2^RetryCount times MinDelay, or times MinThrottleDelay for a
\* response with status 429, 502, 503 or 504
RetryDelayBounded ==
    LET c == DefaultConvoyAWSRetryer IN
    retryer.returned =>
       /\ 0 <= retryer.delay /\ retryer.delay <= c.MaxDelay
       /\ ~retryer.suggested =>
             retryer.uncapped >=
                Power(2, retryer.RetryCount)
                * (IF retryer.StatusCode \in {429, 502, 503, 504} THEN c.MinThrottleDelay
                   ELSE c.MinDelay)

====
